---- MODULE Spec2Model ----
(***************************************************************************)
(* pi-mesh: file-based multi-agent coordination.                           *)
(*                                                                         *)
(* Shared state is the mesh directory (registry/<name>.json,               *)
(* inbox/<name>/<file>.json, feed.jsonl); every agent process has its own  *)
(* MeshState object, its own module-level peer-list cache and its own      *)
(* timers.  Strings that the code inspects character by character (agent   *)
(* names, reservation patterns, file paths) are sequences of one-character *)
(* strings.                                                                *)
(***************************************************************************)
EXTENDS Integers, Sequences, FiniteSets, TLC

\* ------------------------------------------------------------------------
\* Bounds of the model
\* ------------------------------------------------------------------------

\* The clock advances in steps of TickMs milliseconds, at most MaxTicks times.
TickMs == 1000
MaxTicks == 1
\* At most MaxMsgs message files are ever written.
MaxMsgs == 2
\* Date.now() is EpochMs plus the model clock: a reading of fixed digit width.
EpochMs == 1000000
\* The feed holds at most MaxFeed lines in the model.
MaxFeed == 3
\* Edits a rolling window of tracking.ts counts beyond those its scenario
\* starts with.
MaxEdits == 1

\* Process identifiers of the agent processes.
Procs == {1, 2}

\* ------------------------------------------------------------------------
\* Program constants
\* ------------------------------------------------------------------------

AGENTS_CACHE_TTL_MS == 1000
WATCHER_DEBOUNCE_MS == 50
EDIT_DEBOUNCE_MS == 5000
MAX_FILES_MODIFIED == 20
RECENT_WINDOW_MS == 60000
FEED_RETENTION == 50
MAX_CHAT_HISTORY == 50
MAX_WATCHER_RETRIES == 5
MaxSeqName == 99
MaxNameLen == 50
RetryBaseMs == 1000
RetryCapMs == 30000

\* ------------------------------------------------------------------------
\* Strings
\* ------------------------------------------------------------------------

Digit == <<"0", "1", "2", "3", "4", "5", "6", "7", "8", "9">>

\* Decimal rendering of a natural number, as template literals do it.
RECURSIVE ToDigits(_)
ToDigits(n) ==
  IF n < 10 THEN <<Digit[n + 1]>>
  ELSE ToDigits(n \div 10) \o <<Digit[(n % 10) + 1]>>

Lower == {"a", "b", "c", "d", "e", "f", "g", "h", "i", "j", "k", "l", "m",
          "n", "o", "p", "q", "r", "s", "t", "u", "v", "w", "x", "y", "z"}
Upper == {"A", "B", "C", "D", "E", "F", "G", "H", "I", "J", "K", "L", "M",
          "N", "O", "P", "Q", "R", "S", "T", "U", "V", "W", "X", "Y", "Z"}
NameStartChars == Lower \cup Upper \cup {Digit[i] : i \in 1..10} \cup {"_"}
NameChars == NameStartChars \cup {"-"}

StartsWith(s, prefix) ==
  /\ Len(prefix) <= Len(s)
  /\ SubSeq(s, 1, Len(prefix)) = prefix

EndsWith(s, c) == Len(s) > 0 /\ s[Len(s)] = c

\* The empty string; state.agentName before registration.
NoName == <<>>

\* process.env.PI_AGENT ?? "agent"
AgentType == <<"a", "g", "e", "n", "t">>

\* `${agentType}-${i}`
SeqName(i) == AgentType \o <<"-">> \o ToDigits(i)

ZedName == <<"z", "e", "d">>
BadName == <<"-", "z">>

\* PI_AGENT_NAME of each process (NoName: the variable is not set).
EnvNameChoices(p) == IF p = 1 THEN {NoName, BadName} ELSE {NoName, ZedName}

\* Names a rename may ask for.
RenameTargets == {SeqName(1), SeqName(2), ZedName, BadName}

isValidAgentName(name) ==
  /\ Len(name) > 0
  /\ Len(name) <= MaxNameLen
  /\ name[1] \in NameStartChars
  /\ \A i \in 1..Len(name) : name[i] \in NameChars

\* Reservation patterns and file paths used as inputs.
SrcAuthDir == <<"s", "r", "c", "/", "a", "u", "t", "h", "/">>
SrcAuthLogin == SrcAuthDir \o <<"l", "o", "g", "i", "n", ".", "t", "s">>
SrcAuthorization ==
  <<"s", "r", "c", "/", "a", "u", "t", "h", "o", "r", "/", "x">>


\* ------------------------------------------------------------------------
\* Finite maps (directories are maps from entry name to content)
\* ------------------------------------------------------------------------

Put(f, k, v) == [x \in DOMAIN f \cup {k} |-> IF x = k THEN v ELSE f[x]]
Del(f, k) == [x \in DOMAIN f \ {k} |-> f[x]]
EmptyMap == [x \in {} |-> 0]

\* Content of a file that JSON.parse rejects.
Malformed == [ok |-> FALSE]
\* JSON.parse succeeds on the content.
Parses(content) == content.ok

\* Absent values (null / undefined).
NoCache == [null |-> TRUE]
NoWatch == <<>>
NoTimer == 0

\* ------------------------------------------------------------------------
\* State
\* ------------------------------------------------------------------------

VARIABLES
  now,          \* the wall clock, ms since EpochMs
  alive,        \* pids the operating system reports alive
  envName,      \* PI_AGENT_NAME of each process
  config,       \* the MeshConfig loadConfig returned
  phase,        \* "new", "running" after session_start, "shutdown" at the end
  registry,     \* registry/<name>.json : name -> record or Malformed
  inbox,        \* inbox/<name>/ : name -> (file name -> message or Malformed)
  feed,         \* feed.jsonl : its text
  state,        \* MeshState of each process
  agentsCache,  \* registry.ts agentsCache of each process
  tracking,     \* tracking.ts module state of each process
  guard,        \* messaging.ts reentrancy guard of each process
  timeouts,     \* the timeouts of each process its event loop still holds
  delivered,    \* messages each process has passed to its deliverFn, in order
  notify,       \* a change notification of fs.watch is queued for the process
  call,         \* position of each process inside register / renameAgent
  nextId,       \* number of message ids drawn so far
  ev            \* the last handler that ran, its inputs and its result

vars == <<now, alive, envName, config, phase, registry, inbox, feed, state,
          agentsCache, tracking, guard, timeouts, delivered, notify, call,
                 nextId, ev>>

\* The part of the state the handlers of one process read and write.  The
\* handlers are operators from worlds to worlds; one that uses an argument
\* more than once binds it through a singleton set, which evaluates the
\* argument once.
World ==
  [registry |-> registry, inbox |-> inbox, feed |-> feed, state |-> state,
   agentsCache |-> agentsCache, tracking |-> tracking, guard |-> guard,
   timeouts |-> timeouts,
   delivered |-> delivered, notify |-> notify, call |-> call]

Commit(w) ==
  /\ registry' = w.registry
  /\ inbox' = w.inbox
  /\ feed' = w.feed
  /\ state' = w.state
  /\ agentsCache' = w.agentsCache
  /\ tracking' = w.tracking
  /\ guard' = w.guard
  /\ timeouts' = w.timeouts
  /\ delivered' = w.delivered
  /\ notify' = w.notify
  /\ call' = w.call

DateNow == EpochMs + now

\* The settings of MeshConfig the model follows, with their defaults.
DEFAULT_CONFIG == [autoStatus |-> TRUE]

isProcessAlive(pid) == pid \in alive

\* activity.currentActivity and statusMessage are texts or undefined; no
\* assignment of the code stores an empty text in either.
NoActivity == <<>>
NoStatus == <<>>

InitialMeshState ==
  [agentName |-> NoName, registered |-> FALSE, reservations |-> <<>>,
   sessionStartedAt |-> 0, watcher |-> NoWatch, watcherRetries |-> 0,
   watcherRetryTimer |-> NoTimer, watcherDebounceTimer |-> NoTimer,
   registryFlushTimer |-> FALSE,
   chatHistory |-> EmptyMap, unreadCounts |-> EmptyMap,
   currentActivity |-> NoActivity, statusMessage |-> NoStatus,
   customStatus |-> FALSE, filesModified |-> <<>>]

\* The module state of tracking.ts: the map from paths to the timers of
\* their edit logs, the handle of each rolling-window timer, and what the
\* windows count.  A handle is the clock reading at which its timer is due.
InitialTracking ==
  [pendingEdits |-> {}, recentCommitTimer |-> NoTimer,
   recentTestTimer |-> NoTimer, recentEditTimer |-> NoTimer,
   recentCommit |-> FALSE, recentTestRuns |-> 0, recentEdits |-> 0]

\* setTimeout and clearTimeout of the host: a pending timeout is known by
\* what it is for, the key it belongs to and the time at which it is due.
\* clearTimeout of a handle whose timeout has run, or of null, does nothing.
NoKey == <<>>
setTimeout(w, p, id, key, due) ==
  [w EXCEPT !.timeouts[p] = @ \cup {[id |-> id, key |-> key, due |-> due]}]
clearTimeout(w, p, id, key, handle) ==
  [w EXCEPT !.timeouts[p] = @ \ {[id |-> id, key |-> key, due |-> handle]}]
PendingTimeouts(w, p, id, key) ==
  {t \in w.timeouts[p] : t.id = id /\ t.key = key}

\* isProcessingMessages and pendingProcessArgs of messaging.ts; the
\* arguments a pending request holds are the same in every call.
InitialGuard == [isProcessingMessages |-> FALSE, pendingProcessArgs |-> FALSE]

Idle == [pc |-> "idle"]

\* ev after a step whose result no property reads.
NoEvent == [op |-> "none"]

\* The extension has just been loaded in every process, on an empty mesh
\* directory.
Loaded ==
  /\ alive = Procs
  /\ phase = [p \in Procs |-> "new"]
  /\ registry = EmptyMap
  /\ inbox = EmptyMap
  /\ feed = <<>>
  /\ state = [p \in Procs |-> InitialMeshState]
  /\ agentsCache = [p \in Procs |-> NoCache]
  /\ guard = [p \in Procs |-> InitialGuard]
  /\ timeouts = [p \in Procs |-> {}]
  /\ delivered = [p \in Procs |-> <<>>]
  /\ notify = [p \in Procs |-> FALSE]
  /\ call = [p \in Procs |-> Idle]
  /\ nextId = 0
  /\ ev = [op |-> "init"]

Start ==
  /\ now = 0
  /\ config = DEFAULT_CONFIG
  /\ tracking = [p \in Procs |-> InitialTracking]
  /\ Loaded

\* No process has PI_AGENT_NAME set.
Init == envName = [p \in Procs |-> NoName] /\ Start

\* Some processes have PI_AGENT_NAME set.
InitEnv ==
  /\ envName \in [Procs -> UNION {EnvNameChoices(p) : p \in Procs}]
  /\ \A p \in Procs : envName[p] \in EnvNameChoices(p)
  /\ Start

\* ------------------------------------------------------------------------
\* Registry: cache, name generation
\* ------------------------------------------------------------------------

invalidateAgentsCache(w, p) == [w EXCEPT !.agentsCache[p] = NoCache]

\* The loop of generateName from candidate number i on.
RECURSIVE GenerateFrom(_, _, _)
GenerateFrom(reg0, i0, p) ==
  CHOOSE r0 \in {(
  IF i > MaxSeqName THEN AgentType \o <<"-">> \o ToDigits(p)
  ELSE LET name == SeqName(i) IN
    IF name \notin DOMAIN reg THEN name
    ELSE IF ~Parses(reg[name]) THEN name
    ELSE IF ~isProcessAlive(reg[name].pid) THEN name
    ELSE GenerateFrom(reg, i + 1, p)
  ) : reg \in {reg0}, i \in {i0}} : TRUE

generateName(w, p) ==
  IF envName[p] # NoName THEN envName[p]
  ELSE GenerateFrom(w.registry, 1, p)


\* ------------------------------------------------------------------------
\* Feed
\* ------------------------------------------------------------------------

\* feed.jsonl is text: a sequence of characters, one JSON document per line.
Quote == "\""
Backslash == "\\"
NL == "\n"
Whitespace == {" ", NL}

NoText == <<>>

\* The keys of a FeedEvent, in the order logEvent's object literal lists them.
KeyTs == <<"t", "s">>
KeyAgent == <<"a", "g", "e", "n", "t">>
KeyType == <<"t", "y", "p", "e">>
KeyTarget == <<"t", "a", "r", "g", "e", "t">>
KeyPreview == <<"p", "r", "e", "v", "i", "e", "w">>
FeedKeys == <<KeyTs, KeyAgent, KeyType, KeyTarget, KeyPreview>>

\* FeedEventType as text.
TypeText ==
  [join |-> <<"j", "o", "i", "n">>,
   leave |-> <<"l", "e", "a", "v", "e">>,
   reserve |-> <<"r", "e", "s", "e", "r", "v", "e">>,
   release |-> <<"r", "e", "l", "e", "a", "s", "e">>,
   message |-> <<"m", "e", "s", "s", "a", "g", "e">>,
   commit |-> <<"c", "o", "m", "m", "i", "t">>,
   test |-> <<"t", "e", "s", "t">>,
   edit |-> <<"e", "d", "i", "t">>,
   stuck |-> <<"s", "t", "u", "c", "k">>]

\* JSON.stringify of a string: quoted, with the quote, the backslash and the
\* line feed escaped.
RECURSIVE JsonEscape(_)
JsonEscape(s) ==
  IF s = <<>> THEN <<>>
  ELSE (IF Head(s) = Quote THEN <<Backslash, Quote>>
        ELSE IF Head(s) = Backslash THEN <<Backslash, Backslash>>
        ELSE IF Head(s) = NL THEN <<Backslash, "n">>
        ELSE <<Head(s)>>) \o JsonEscape(Tail(s))

JsonStringRaw(s) == <<Quote>> \o s \o <<Quote>>

JsonString(s) == <<Quote>> \o JsonEscape(s) \o <<Quote>>

\* JSON.stringify of an object whose values are strings: the members whose
\* value is not undefined (the keys of the map), in the order of the literal.
RECURSIVE JsonMembers(_, _, _)
JsonMembers(event, keys, first) ==
  IF keys = <<>> THEN <<>>
  ELSE IF Head(keys) \notin DOMAIN event
       THEN JsonMembers(event, Tail(keys), first)
       ELSE (IF first THEN <<>> ELSE <<",">>)
            \o JsonString(Head(keys)) \o <<":">>
            \o JsonString(event[Head(keys)])
            \o JsonMembers(event, Tail(keys), FALSE)

JsonStringify(event) == <<"{">> \o JsonMembers(event, FeedKeys, TRUE) \o <<"}">>

\* String.prototype.trim
RECURSIVE TrimStart(_)
TrimStart(s) ==
  IF s # <<>> /\ Head(s) \in Whitespace THEN TrimStart(Tail(s)) ELSE s

RECURSIVE TrimEnd(_)
TrimEnd(s) ==
  IF s # <<>> /\ s[Len(s)] \in Whitespace
  THEN TrimEnd(SubSeq(s, 1, Len(s) - 1)) ELSE s

Trim(s) == TrimEnd(TrimStart(s))

\* s.split(sep) for a separator of one character: the pieces between the
\* separators, empty ones included.
SplitOn(s, sep) ==
  LET breaks == {i \in 1..Len(s) : s[i] = sep}
      \* the position of the k-th separator; 0 and Len(s) + 1 bound the text
      Break(k) ==
        IF k = 0 THEN 0
        ELSE IF k > Cardinality(breaks) THEN Len(s) + 1
        ELSE CHOOSE i \in breaks :
               Cardinality({j \in breaks : j < i}) = k - 1
  IN [k \in 1..(Cardinality(breaks) + 1) |->
        SubSeq(s, Break(k - 1) + 1, Break(k) - 1)]

\* content.split("\n")
Split(s) == SplitOn(s, NL)

\* lines.join("\n")
RECURSIVE Join(_)
Join(lines) ==
  IF lines = <<>> THEN <<>>
  ELSE IF Len(lines) = 1 THEN Head(lines)
  ELSE Head(lines) \o <<NL>> \o Join(Tail(lines))

\* JSON.parse, for the documents a feed line can hold: an object whose
\* members are strings.  Every other text throws.
ParseError == [ok |-> FALSE]

\* The characters of a string literal from position i, after its opening
\* quote, up to the closing quote.
RECURSIVE ParseChars(_, _, _)
ParseChars(s, i, acc) ==
  IF i > Len(s) THEN ParseError
  ELSE IF s[i] = Quote THEN [ok |-> TRUE, value |-> acc, next |-> i + 1]
  ELSE IF s[i] = NL THEN ParseError
  ELSE IF s[i] = Backslash
       THEN IF i + 1 > Len(s) THEN ParseError
            ELSE IF s[i + 1] \in {Quote, Backslash, "/"}
                 THEN ParseChars(s, i + 2, Append(acc, s[i + 1]))
            ELSE IF s[i + 1] = "n" THEN ParseChars(s, i + 2, Append(acc, NL))
            ELSE ParseError
  ELSE ParseChars(s, i + 1, Append(acc, s[i]))

ParseString(s, i) ==
  IF i > Len(s) \/ s[i] # Quote THEN ParseError
  ELSE ParseChars(s, i + 1, <<>>)

\* The members of an object from position i; a repeated key keeps its last
\* value.
RECURSIVE ParseMembers(_, _, _)
ParseMembers(s, i, obj) ==
  LET k == ParseString(s, i)
  IN IF ~k.ok \/ k.next > Len(s) \/ s[k.next] # ":" THEN ParseError
     ELSE LET v == ParseString(s, k.next + 1)
          IN IF ~v.ok \/ v.next > Len(s) THEN ParseError
             ELSE LET o == [x \in DOMAIN obj \cup {k.value} |->
                              IF x = k.value THEN v.value ELSE obj[x]]
                  IN IF s[v.next] = "}"
                     THEN IF v.next = Len(s)
                          THEN [ok |-> TRUE, value |-> o]
                          ELSE ParseError
                     ELSE IF s[v.next] = ","
                          THEN ParseMembers(s, v.next + 1, o)
                          ELSE ParseError

NoMembers == [x \in {} |-> <<>>]

JsonParse(s) ==
  IF Len(s) < 2 \/ s[1] # "{" THEN ParseError
  ELSE IF s = <<"{", "}">> THEN [ok |-> TRUE, value |-> NoMembers]
  ELSE ParseMembers(s, 2, NoMembers)

\* Array.prototype.slice(start): a negative start counts from the end, and
\* -0 is 0.
Slice(a, start) ==
  LET from == IF start < 0 THEN (IF Len(a) + start > 0 THEN Len(a) + start
                                 ELSE 0)
              ELSE (IF start < Len(a) THEN start ELSE Len(a))
  IN SubSeq(a, from + 1, Len(a))

\* The loop of readEvents: the lines that parse, in order.
RECURSIVE ParseLines(_)
ParseLines(lines) ==
  IF lines = <<>> THEN <<>>
  ELSE LET r == JsonParse(Head(lines))
       IN (IF r.ok THEN <<r.value>> ELSE <<>>) \o ParseLines(Tail(lines))

\* readEvents; readable is false when the file is missing or readFileSync
\* throws.
readEvents(content, readable, limit) ==
  IF ~readable THEN <<>>
  ELSE IF Trim(content) = <<>> THEN <<>>
  ELSE Slice(ParseLines(Split(Trim(content))), 0 - limit)

\* appendEvent: one line appended to feed.jsonl.
appendEvent(content, event) == content \o JsonStringify(event) \o <<NL>>

\* new Date(ms).toISOString(), rendered as the digits of the reading, with
\* a sign for a reading before the epoch.
toISOString(ms) == IF ms < 0 THEN <<"-">> \o ToDigits(0 - ms) ELSE ToDigits(ms)

NoTarget == <<>>

\* The FeedEvent logEvent builds; target is left out when the caller passes
\* none.
FeedEvent(ts, agent, type, target) ==
  [k \in {KeyTs, KeyAgent, KeyType}
         \cup (IF target = NoTarget THEN {} ELSE {KeyTarget}) |->
     IF k = KeyTs THEN ts
     ELSE IF k = KeyAgent THEN agent
     ELSE IF k = KeyType THEN TypeText[type]
     ELSE target]

logEvent(w, agent, type, target) ==
  [w EXCEPT !.feed =
     appendEvent(@, FeedEvent(toISOString(DateNow), agent, type, target))]

\* The number of lines of the feed.
LineCount(content) == Cardinality({i \in 1..Len(content) : content[i] = NL})

\* pruneFeed: keeps the last maxEvents lines.
pruneFeed(w0, maxEvents) ==
  CHOOSE r0 \in {(
  IF Trim(w.feed) = <<>> THEN w
  ELSE LET lines == Split(Trim(w.feed))
       IN IF Len(lines) <= maxEvents THEN w
          ELSE [w EXCEPT !.feed =
                  Join(Slice(lines, 0 - maxEvents)) \o <<NL>>]
  ) : w \in {w0}} : TRUE

\* ------------------------------------------------------------------------
\* Registry: queries
\* ------------------------------------------------------------------------

\* Order of characters in file names (their code points).
CharOrder ==
  <<"-", ".", "0", "1", "2", "3", "4", "5", "6", "7", "8", "9", "_",
    "a", "b", "c", "d", "e", "f", "g", "h", "i", "j", "k", "l", "m",
    "n", "o", "p", "q", "r", "s", "t", "u", "v", "w", "x", "y", "z">>
CharRank(c) == CHOOSE i \in 1..Len(CharOrder) : CharOrder[i] = c

\* a < b as JavaScript compares strings (Array.prototype.sort's default).
RECURSIVE StrLess(_, _)
StrLess(a, b) ==
  IF Len(b) = 0 THEN FALSE
  ELSE IF Len(a) = 0 THEN TRUE
  ELSE IF a[1] # b[1] THEN CharRank(a[1]) < CharRank(b[1])
  ELSE StrLess(Tail(a), Tail(b))

\* The strings of a set in ascending order.
RECURSIVE SortStrings(_)
SortStrings(S0) ==
  CHOOSE r0 \in {(
  IF S = {} THEN <<>>
  ELSE LET m == CHOOSE x \in S : \A y \in S \ {x} : StrLess(x, y)
       IN <<m>> \o SortStrings(S \ {m})
  ) : S \in {S0}} : TRUE

\* The loop of getActiveAgents over the directory listing `files`:
\* [reg: the registry afterwards, agents: the records collected].
RECURSIVE ScanRegistry(_, _, _)
ScanRegistry(reg0, files0, acc0) ==
  CHOOSE r0 \in {(
  IF files = <<>> THEN [reg |-> reg, agents |-> acc]
  ELSE LET file == Head(files) IN
    IF file \notin DOMAIN reg \/ ~Parses(reg[file])
    THEN ScanRegistry(reg, Tail(files), acc)
    ELSE IF ~isProcessAlive(reg[file].pid)
    THEN ScanRegistry(Del(reg, file), Tail(files), acc)
    ELSE ScanRegistry(reg, Tail(files), Append(acc, reg[file]))
  ) : reg \in {reg0}, files \in {files0}, acc \in {acc0}} : TRUE

\* A filter that lets the caller's own record through.
ExcludeNone(agents, self) == agents

ExcludeSelf(agents, self) ==
  SelectSeq(agents, LAMBDA a : a.name # self)

CacheFresh(cache) ==
  cache # NoCache /\ now - cache.timestamp < AGENTS_CACHE_TTL_MS

\* getActiveAgents: [w: the world afterwards, agents: the list returned].
getActiveAgents(w0, p) ==
  CHOOSE r0 \in {(
  LET self == w.state[p].agentName
      cache == w.agentsCache[p]
  IN IF CacheFresh(cache)
     THEN [w |-> w, agents |-> ExcludeSelf(cache.agents, self)]
     ELSE LET scan == ScanRegistry(w.registry,
                                   SortStrings(DOMAIN w.registry), <<>>)
          IN [w |-> [w EXCEPT !.registry = scan.reg,
                              !.agentsCache[p] =
                                 [agents |-> scan.agents, timestamp |-> now]],
              agents |-> ExcludeSelf(scan.agents, self)]
  ) : w \in {w0}} : TRUE

\* getAllAgents: the caller's own record, built from its state, then the peers.
getAllAgents(w0, p) ==
  CHOOSE r0 \in {(
  LET r == getActiveAgents(w, p)
      self == [ok |-> TRUE, name |-> w.state[p].agentName, pid |-> p,
               res |-> w.state[p].reservations]
  IN [w |-> r.w, agents |-> <<self>> \o r.agents]
  ) : w \in {w0}} : TRUE

\* updateStatusBar: counts the active peers of a registered agent.
updateStatusBar(w0, p) ==
  CHOOSE r0 \in {(
  IF ~w.state[p].registered THEN w ELSE getActiveAgents(w, p).w
  ) : w \in {w0}} : TRUE

\* updateRegistration: read-modify-write of the caller's own record.
updateRegistration(w0, p) ==
  CHOOSE r0 \in {(
  LET name == w.state[p].agentName IN
  IF ~w.state[p].registered THEN w
  ELSE IF name \notin DOMAIN w.registry THEN w
  ELSE IF ~Parses(w.registry[name]) THEN w
  ELSE [w EXCEPT !.registry[name].res = w.state[p].reservations]
  ) : w \in {w0}} : TRUE

\* A match that compares the directory name without its boundary.
pathMatchesNoBoundary(filePath, pattern) ==
  IF EndsWith(pattern, "/")
  THEN StartsWith(filePath, SubSeq(pattern, 1, Len(pattern) - 1))
  ELSE filePath = pattern

pathMatchesReservation(filePath, pattern) ==
  IF EndsWith(pattern, "/")
  THEN StartsWith(filePath, pattern) \/ filePath \o <<"/">> = pattern
  ELSE filePath = pattern

\* The conflicts one agent's reservations raise on filePath.
RECURSIVE ConflictsOfAgent(_, _, _)
ConflictsOfAgent(filePath, agent, res) ==
  IF res = <<>> THEN <<>>
  ELSE (IF pathMatchesReservation(filePath, Head(res).pattern)
        THEN <<[agent |-> agent.name, pattern |-> Head(res).pattern,
                reason |-> Head(res).reason]>>
        ELSE <<>>) \o ConflictsOfAgent(filePath, agent, Tail(res))

RECURSIVE ConflictsOfAgents(_, _)
ConflictsOfAgents(filePath, agents) ==
  IF agents = <<>> THEN <<>>
  ELSE ConflictsOfAgent(filePath, Head(agents), Head(agents).res)
         \o ConflictsOfAgents(filePath, Tail(agents))

\* getConflicts: [w: the world afterwards, conflicts: the list returned].
getConflicts(filePath, w0, p) ==
  CHOOSE r0 \in {(
  LET r == getActiveAgents(w, p)
  IN [w |-> r.w, conflicts |-> ConflictsOfAgents(filePath, r.agents)]
  ) : w \in {w0}} : TRUE

\* ------------------------------------------------------------------------
\* Messaging
\* ------------------------------------------------------------------------

\* Math.random().toString(36).substring(2, 8), drawn from this set.
Suffixes == {<<"b", "7">>, <<"k", "3">>}

\* `${Date.now()}-${random}.json`
MsgFileName(ts, random) ==
  ToDigits(ts) \o <<"-">> \o random \o <<".", "j", "s", "o", "n">>

ensureInboxDir(w0, name) ==
  CHOOSE r0 \in {(
  IF name \in DOMAIN w.inbox THEN w
  ELSE [w EXCEPT !.inbox = Put(@, name, EmptyMap)]
  ) : w \in {w0}} : TRUE

\* fs.watch queues a change notification for every live watcher of the
\* directory.
NotifyWatchers(w0, dir) ==
  CHOOSE r0 \in {(
  [w EXCEPT !.notify =
     [q \in Procs |-> IF q \in alive /\ w.state[q].watcher = dir
                      THEN TRUE ELSE @[q]]]
  ) : w \in {w0}} : TRUE

\* A validation that accepts every readable record.
validateRecipientNoProbe(w0, name) ==
  CHOOSE r0 \in {(
  IF name \notin DOMAIN w.registry
  THEN [w |-> w, valid |-> FALSE, error |-> "not_found"]
  ELSE IF ~Parses(w.registry[name])
  THEN [w |-> w, valid |-> FALSE, error |-> "invalid_registration"]
  ELSE [w |-> w, valid |-> TRUE, error |-> "none"]
  ) : w \in {w0}} : TRUE

\* validateRecipient: [w, valid, error].
validateRecipient(w0, name) ==
  CHOOSE r0 \in {(
  IF name \notin DOMAIN w.registry
  THEN [w |-> w, valid |-> FALSE, error |-> "not_found"]
  ELSE IF ~Parses(w.registry[name])
  THEN [w |-> w, valid |-> FALSE, error |-> "invalid_registration"]
  ELSE IF ~isProcessAlive(w.registry[name].pid)
  THEN [w |-> [w EXCEPT !.registry = Del(@, name)],
        valid |-> FALSE, error |-> "not_active"]
  ELSE [w |-> w, valid |-> TRUE, error |-> "none"]
  ) : w \in {w0}} : TRUE

\* sendMessage: writes the message file `content` into inbox/<to>/.
writeMessageFile(w, to, random, content) ==
  LET w1 == ensureInboxDir(w, to)
      file == MsgFileName(DateNow, random)
  IN NotifyWatchers([w1 EXCEPT !.inbox[to] = Put(@, file, content)], to)

\* The MeshMessage sendMessage builds.
MeshMessage(from, to, urgent, id) ==
  [ok |-> TRUE, id |-> id, from |-> from, to |-> to, urgent |-> urgent]

sendMessage(w0, p, to, urgent, random, id) ==
  CHOOSE r0 \in {(
  writeMessageFile(w, to, random,
                   MeshMessage(w.state[p].agentName, to, urgent, id))
  ) : w \in {w0}} : TRUE

\* A loop that stops after the first agent.
BroadcastToFirst(w0, p, agents0, urgent, randoms, id) ==
  CHOOSE r0 \in {(
  IF agents = <<>> THEN [w |-> w, messages |-> <<>>]
  ELSE LET to == Head(agents).name
       IN [w |-> sendMessage(w, p, to, urgent, Head(randoms), id + 1),
           messages |-> <<MeshMessage(w.state[p].agentName, to, urgent,
                                      id + 1)>>]
  ) : w \in {w0}, agents \in {agents0}} : TRUE

\* The loop of broadcastMessage over the agents resolved; the i-th message
\* draws the i-th of `randoms` and the id after `id`:
\* [w: the world afterwards, messages: the list returned].
RECURSIVE BroadcastTo(_, _, _, _, _, _)
BroadcastTo(w0, p, agents0, urgent, randoms, id) ==
  CHOOSE r0 \in {(
  IF agents = <<>> THEN [w |-> w, messages |-> <<>>]
  ELSE LET to == Head(agents).name
           msg == MeshMessage(w.state[p].agentName, to, urgent, id + 1)
           rest == BroadcastTo(
                     sendMessage(w, p, to, urgent, Head(randoms), id + 1),
                     p, Tail(agents), urgent, Tail(randoms), id + 1)
       IN [w |-> rest.w, messages |-> <<msg>> \o rest.messages]
  ) : w \in {w0}, agents \in {agents0}} : TRUE

\* broadcastMessage: [w, messages].
broadcastMessage(w0, p, urgent, randoms, id) ==
  CHOOSE r0 \in {(
  BroadcastTo(r.w, p, r.agents, urgent, randoms, id)
  ) : r \in {getActiveAgents(w0, p)}} : TRUE

\* map.get(k) ?? d
GetOr(f, k, d) == IF k \in DOMAIN f THEN f[k] ELSE d

\* history.push(msg); if (history.length > 50) history.shift()
PushCapped(history, msg) ==
  LET h == Append(history, msg)
  IN IF Len(h) > MAX_CHAT_HISTORY THEN Tail(h) ELSE h

\* A store that counts the message as the sender's only unread one.
storeMessageFirst(w0, p, msg0) ==
  CHOOSE r0 \in {(
  [w EXCEPT
     !.state[p].chatHistory =
        Put(@, msg.from, PushCapped(GetOr(@, msg.from, <<>>), msg)),
     !.state[p].unreadCounts = Put(@, msg.from, 1)]
  ) : w \in {w0}, msg \in {msg0}} : TRUE

\* processInbox: the message goes into the chat history of its sender and
\* the sender's unread counter goes up.
storeMessage(w0, p, msg0) ==
  CHOOSE r0 \in {(
  [w EXCEPT
     !.state[p].chatHistory =
        Put(@, msg.from, PushCapped(GetOr(@, msg.from, <<>>), msg)),
     !.state[p].unreadCounts =
        Put(@, msg.from, GetOr(@, msg.from, 0) + 1)]
  ) : w \in {w0}, msg \in {msg0}} : TRUE

\* A loop that delivers every readable file and unlinks none.
RECURSIVE DeliverFilesKeep(_, _, _, _)
DeliverFilesKeep(w0, p, dir, files0) ==
  CHOOSE r0 \in {(
  IF files = <<>> THEN w
  ELSE LET content == w.inbox[dir][Head(files)]
           w1 == IF Parses(content)
                 THEN [storeMessage(w, p, content)
                         EXCEPT !.delivered[p] = Append(@, content)]
                 ELSE w
       IN DeliverFilesKeep(w1, p, dir, Tail(files))
  ) : w \in {w0}, files \in {files0}} : TRUE

\* The loop of processInbox over the sorted listing `files` of inbox/<dir>/.
RECURSIVE DeliverFiles(_, _, _, _)
DeliverFiles(w0, p, dir, files0) ==
  CHOOSE r0 \in {(
  IF files = <<>> THEN w
  ELSE LET file == Head(files)
           content == w.inbox[dir][file]
           w1 == IF Parses(content)
                 THEN [storeMessage(w, p, content)
                         EXCEPT !.delivered[p] = Append(@, content)]
                 ELSE w
           w2 == [w1 EXCEPT !.inbox[dir] = Del(@, file)]
       IN DeliverFiles(w2, p, dir, Tail(files))
  ) : w \in {w0}, files \in {files0}} : TRUE

\* The try block of processInbox with a deliverFn that makes no call of
\* processInbox.
scanInbox(w0, p) ==
  CHOOSE r0 \in {(
  LET dir == w.state[p].agentName IN
  IF dir \notin DOMAIN w.inbox THEN w
  ELSE IF DOMAIN w.inbox[dir] = {} THEN w
  ELSE NotifyWatchers(
         DeliverFiles(w, p, dir, SortStrings(DOMAIN w.inbox[dir])), dir)
  ) : w \in {w0}} : TRUE

\* A processInbox without the guard: it scans whatever the flag says.
processInboxUnguarded(w0, p) ==
  CHOOSE r0 \in {(
  IF ~w.state[p].registered THEN w
  ELSE [scanInbox([w EXCEPT !.guard[p].isProcessingMessages = TRUE], p)
          EXCEPT !.guard[p].isProcessingMessages = FALSE]
  ) : w \in {w0}} : TRUE

\* processInbox as one step: a call while the flag is set records the
\* pending request and returns; otherwise the scan, then the finally block.
RECURSIVE processInbox(_, _)
processInbox(w0, p) ==
  CHOOSE r0 \in {(
  IF ~w.state[p].registered THEN w
  ELSE IF w.guard[p].isProcessingMessages
  THEN [w EXCEPT !.guard[p].pendingProcessArgs = TRUE]
  ELSE LET w1 == scanInbox(
                   [w EXCEPT !.guard[p].isProcessingMessages = TRUE], p)
           w2 == [w1 EXCEPT !.guard[p].isProcessingMessages = FALSE]
       IN IF w2.guard[p].pendingProcessArgs
          THEN processInbox(
                 [w2 EXCEPT !.guard[p].pendingProcessArgs = FALSE], p)
          ELSE w2
  ) : w \in {w0}} : TRUE

\* A stopWatcher that leaves the retry timer pending.
stopWatcherKeepingRetry(w, p) ==
  [clearTimeout(w, p, "watcherDebounceTimer", NoKey,
                w.state[p].watcherDebounceTimer)
     EXCEPT !.state[p].watcherDebounceTimer = NoTimer,
            !.state[p].watcher = NoWatch,
            !.notify[p] = FALSE]

stopWatcher(w, p) ==
  [clearTimeout(w, p, "watcherDebounceTimer", NoKey,
                w.state[p].watcherDebounceTimer)
     EXCEPT !.state[p].watcherDebounceTimer = NoTimer,
            !.state[p].watcherRetryTimer = NoTimer,
            !.state[p].watcher = NoWatch,
            !.notify[p] = FALSE]

RECURSIVE Pow2(_)
Pow2(n) == IF n = 0 THEN 1 ELSE 2 * Pow2(n - 1)

Min(a, b) == IF a < b THEN a ELSE b

\* A retry that waits the base delay after every failure and never gives up.
scheduleRetryFlat(w0, p) ==
  CHOOSE r0 \in {(
  [w EXCEPT !.state[p].watcherRetries = @ + 1,
            !.state[p].watcherRetryTimer = RetryBaseMs]
  ) : w \in {w0}} : TRUE

scheduleRetry(w0, p) ==
  CHOOSE r0 \in {(
  LET n == w.state[p].watcherRetries + 1 IN
  IF n < MAX_WATCHER_RETRIES
  THEN [w EXCEPT !.state[p].watcherRetries = n,
                 !.state[p].watcherRetryTimer =
                    Min(RetryBaseMs * Pow2(n - 1), RetryCapMs)]
  ELSE [w EXCEPT !.state[p].watcherRetries = n]
  ) : w \in {w0}} : TRUE

\* startWatcher; watchOk: fs.watch succeeds.
startWatcher(w0, p, watchOk) ==
  CHOOSE r0 \in {(
  IF ~w.state[p].registered THEN w
  ELSE IF w.state[p].watcher # NoWatch THEN w
  ELSE IF w.state[p].watcherRetries >= MAX_WATCHER_RETRIES THEN w
  ELSE LET dir == w.state[p].agentName
           w1 == processInbox(ensureInboxDir(w, dir), p)
       IN IF watchOk
          THEN [w1 EXCEPT !.state[p].watcher = dir,
                          !.state[p].watcherRetries = 0]
          ELSE scheduleRetry(w1, p)
  ) : w \in {w0}} : TRUE

\* A recovery that keeps the failure count it finds.
recoverWatcherKeepingCount(w0, p, watchOk) ==
  CHOOSE r0 \in {(
  IF /\ w.state[p].registered
     /\ w.state[p].watcher = NoWatch
     /\ w.state[p].watcherRetryTimer = NoTimer
  THEN startWatcher(w, p, watchOk)
  ELSE w
  ) : w \in {w0}} : TRUE

recoverWatcherIfNeeded(w0, p, watchOk) ==
  CHOOSE r0 \in {(
  IF /\ w.state[p].registered
     /\ w.state[p].watcher = NoWatch
     /\ w.state[p].watcherRetryTimer = NoTimer
  THEN startWatcher([w EXCEPT !.state[p].watcherRetries = 0], p, watchOk)
  ELSE w
  ) : w \in {w0}} : TRUE

\* ------------------------------------------------------------------------
\* register, step by step (one filesystem access per step)
\* ------------------------------------------------------------------------

At(w, p, pc) == w.call[p].pc = pc

Return(w, p, result) ==
  [w EXCEPT !.call[p] = [@ EXCEPT !.pc = "return", !.result = result]]

Goto(w, p, pc) == [w EXCEPT !.call[p].pc = pc]

\* A handler of process p starts: op names it, arg is its input.
Enter(w, p, op, arg) ==
  [w EXCEPT !.call[p] = [pc |-> "enter", op |-> op, arg |-> arg,
                         name |-> NoName, old |-> NoName,
                         result |-> "none"]]

\* register up to and including generateName.
registerBegin(w0, p) ==
  CHOOSE r0 \in {(
  IF ~At(w, p, "enter") THEN w
  ELSE IF w.state[p].registered THEN Return(w, p, "already")
  ELSE LET name == generateName(w, p) IN
    IF ~isValidAgentName(name) THEN Return(w, p, "false")
    ELSE [w EXCEPT !.state[p].agentName = name,
                   !.call[p].name = name,
                   !.call[p].pc = "reg_check"]
  ) : w \in {w0}} : TRUE

\* A collision check that does not probe the owner's pid.
NameTakenNoProbe(reg, name, p) ==
  /\ name \in DOMAIN reg
  /\ Parses(reg[name])
  /\ reg[name].pid # p

\* The collision check: the name is taken by a live agent.
NameTaken(reg, name, p) ==
  /\ name \in DOMAIN reg
  /\ Parses(reg[name])
  /\ isProcessAlive(reg[name].pid)
  /\ reg[name].pid # p

registerCheck(w0, p) ==
  CHOOSE r0 \in {(
  IF ~At(w, p, "reg_check") THEN w
  ELSE IF NameTaken(w.registry, w.call[p].name, p) THEN Return(w, p, "false")
  ELSE Goto(w, p, "reg_write")
  ) : w \in {w0}} : TRUE

registerWrite(w0, p) ==
  CHOOSE r0 \in {(
  IF ~At(w, p, "reg_write") THEN w
  ELSE LET name == w.call[p].name
           w1 == ensureInboxDir(w, name)
       IN [w1 EXCEPT !.registry = Put(@, name,
                        [ok |-> TRUE, name |-> name, pid |-> p,
                         res |-> <<>>]),
                     !.call[p].pc = "reg_verify"]
  ) : w \in {w0}} : TRUE

\* The re-read after the write: the record on disk is the caller's.
WriteStuck(reg, name, p) ==
  /\ name \in DOMAIN reg
  /\ Parses(reg[name])
  /\ reg[name].pid = p

registerVerify(w0, p) ==
  CHOOSE r0 \in {(
  IF ~At(w, p, "reg_verify") THEN w
  ELSE IF ~WriteStuck(w.registry, w.call[p].name, p)
  THEN Return(w, p, "false")
  ELSE Return(invalidateAgentsCache(
                [w EXCEPT !.state[p].registered = TRUE], p), p, "true")
  ) : w \in {w0}} : TRUE

\* register, start to end.
register(w, p) ==
  registerVerify(registerWrite(registerCheck(registerBegin(w, p), p), p), p)

unregister(w0, p) ==
  CHOOSE r0 \in {(
  IF ~w.state[p].registered THEN w
  ELSE LET name == w.state[p].agentName
           w1 == IF name \in DOMAIN w.registry
                 THEN [w EXCEPT !.registry = Del(@, name)] ELSE w
       IN invalidateAgentsCache([w1 EXCEPT !.state[p].registered = FALSE], p)
  ) : w \in {w0}} : TRUE

\* What /mesh and session_start do once register has returned.
\* arg: [auto: autoRegister applies, watchOk: fs.watch succeeds].
joinFinish(w0, p) ==
  CHOOSE r0 \in {(
  IF ~At(w, p, "return") THEN w
  ELSE LET c == w.call[p]
           joined == c.result = "true"
           w1 == IF joined
                 THEN updateStatusBar(startWatcher(w, p, c.arg.watchOk), p)
                 ELSE w
       IN IF c.op = "session_start"
          THEN IF joined
               THEN getActiveAgents(
                      logEvent(pruneFeed(w1, FEED_RETENTION),
                               w1.state[p].agentName, "join", NoTarget),
                      p).w
               ELSE w1
          ELSE IF c.result = "false" THEN w1
          ELSE updateStatusBar(w1, p)
  ) : w \in {w0}} : TRUE

\* ------------------------------------------------------------------------
\* renameAgent, step by step
\* ------------------------------------------------------------------------

\* executeRename up to and including the collision check of renameAgent.
renameBegin(w0, p) ==
  CHOOSE r0 \in {(
  IF ~At(w, p, "enter") THEN w
  ELSE LET newName == w.call[p].arg.name
           w1 == stopWatcher(w, p)
       IN IF ~w1.state[p].registered THEN Return(w1, p, "not_registered")
          ELSE IF ~isValidAgentName(newName)
          THEN Return(w1, p, "invalid_name")
          ELSE IF newName = w1.state[p].agentName
          THEN Return(w1, p, "same_name")
          ELSE IF NameTaken(w1.registry, newName, p)
          THEN Return(w1, p, "name_taken")
          ELSE [w1 EXCEPT !.call[p].name = newName,
                          !.call[p].old = w1.state[p].agentName,
                          !.call[p].pc = "ren_write"]
  ) : w \in {w0}} : TRUE

renameWrite(w0, p) ==
  CHOOSE r0 \in {(
  IF ~At(w, p, "ren_write") THEN w
  ELSE LET name == w.call[p].name
       IN [w EXCEPT !.registry = Put(@, name,
                       [ok |-> TRUE, name |-> name, pid |-> p,
                        res |-> w.state[p].reservations]),
                    !.call[p].pc = "ren_verify"]
  ) : w \in {w0}} : TRUE

renameVerify(w0, p) ==
  CHOOSE r0 \in {(
  IF ~At(w, p, "ren_verify") THEN w
  ELSE LET name == w.call[p].name IN
    IF name \notin DOMAIN w.registry \/ ~Parses(w.registry[name])
    THEN Return(w, p, "verify_failed")
    ELSE IF w.registry[name].pid # p THEN Return(w, p, "race_lost")
    ELSE Goto(w, p, "ren_unlink")
  ) : w \in {w0}} : TRUE

\* fs.unlinkSync(oldRegPath)
renameUnlinkOld(w0, p) ==
  CHOOSE r0 \in {(
  IF ~At(w, p, "ren_unlink") THEN w
  ELSE LET old == w.call[p].old
           w1 == IF old \in DOMAIN w.registry
                 THEN [w EXCEPT !.registry = Del(@, old)] ELSE w
       IN Goto(w1, p, "ren_inbox")
  ) : w \in {w0}} : TRUE

\* fs.rmdirSync removes an empty directory and fails on any other.
rmdirSync(w0, dir) ==
  CHOOSE r0 \in {(
  IF dir \in DOMAIN w.inbox /\ DOMAIN w.inbox[dir] = {}
  THEN [w EXCEPT !.inbox = Del(@, dir)]
  ELSE w
  ) : w \in {w0}} : TRUE

\* The end of a renameAgent that keeps the peer-list cache.
renameInboxKeepingCache(w0, p) ==
  CHOOSE r0 \in {(
  IF ~At(w, p, "ren_inbox") THEN w
  ELSE LET c == w.call[p]
           w1 == rmdirSync(ensureInboxDir(w, c.name), c.old)
       IN Return([w1 EXCEPT !.state[p].agentName = c.name,
                            !.state[p].sessionStartedAt = now],
                 p, "success")
  ) : w \in {w0}} : TRUE

\* The inbox directories and the in-memory identity.
renameInbox(w0, p) ==
  CHOOSE r0 \in {(
  IF ~At(w, p, "ren_inbox") THEN w
  ELSE LET c == w.call[p]
           w1 == rmdirSync(ensureInboxDir(w, c.name), c.old)
       IN Return(invalidateAgentsCache(
                   [w1 EXCEPT !.state[p].agentName = c.name,
                              !.state[p].sessionStartedAt = now], p),
                 p, "success")
  ) : w \in {w0}} : TRUE

\* renameAgent, start to end (after stopWatcher).
renameAgent(w, p) ==
  renameInbox(renameUnlinkOld(renameVerify(renameWrite(
    renameBegin(w, p), p), p), p), p)

\* What executeRename does once renameAgent has returned.
renameFinish(w0, p) ==
  CHOOSE r0 \in {(
  IF ~At(w, p, "return") THEN w
  ELSE updateStatusBar(startWatcher(w, p, w.call[p].arg.watchOk), p)
  ) : w \in {w0}} : TRUE

\* ------------------------------------------------------------------------
\* Reservations
\* ------------------------------------------------------------------------

\* validateReservation(pattern).valid
validateReservation(pattern) ==
  ~(pattern = <<>> \/ Trim(pattern) = <<>>)

WithoutPattern(res, pattern) ==
  SelectSeq(res, LAMBDA r : r.pattern # pattern)

\* An addReservation that keeps the earlier entry of the pattern.
addReservationKeeping(w0, p, pattern, reason) ==
  CHOOSE r0 \in {(
  IF ~validateReservation(pattern) THEN w
  ELSE LET w1 == [w EXCEPT !.state[p].reservations =
                     Append(@, [pattern |-> pattern, reason |-> reason])]
       IN logEvent(updateRegistration(w1, p),
                   w1.state[p].agentName, "reserve", pattern)
  ) : w \in {w0}} : TRUE

addReservation(w0, p, pattern, reason) ==
  CHOOSE r0 \in {(
  IF ~validateReservation(pattern) THEN w
  ELSE LET w1 == [w EXCEPT !.state[p].reservations =
                     Append(WithoutPattern(@, pattern),
                            [pattern |-> pattern, reason |-> reason])]
       IN logEvent(updateRegistration(w1, p),
                   w1.state[p].agentName, "reserve", pattern)
  ) : w \in {w0}} : TRUE

removeReservation(w0, p, pattern) ==
  CHOOSE r0 \in {(
  LET kept == WithoutPattern(w.state[p].reservations, pattern) IN
  IF Len(kept) < Len(w.state[p].reservations)
  THEN logEvent(updateRegistration(
                  [w EXCEPT !.state[p].reservations = kept], p),
                w.state[p].agentName, "release", pattern)
  ELSE w
  ) : w \in {w0}} : TRUE

RECURSIVE LogReleases(_, _, _)
LogReleases(w0, agent, res0) ==
  CHOOSE r0 \in {(
  IF res = <<>> THEN w
  ELSE LogReleases(logEvent(w, agent, "release", Head(res).pattern),
                   agent, Tail(res))
  ) : w \in {w0}, res \in {res0}} : TRUE

removeAllReservations(w0, p) ==
  CHOOSE r0 \in {(
  LogReleases(updateRegistration(
                [w EXCEPT !.state[p].reservations = <<>>], p),
              w.state[p].agentName, w.state[p].reservations)
  ) : w \in {w0}} : TRUE

\* ------------------------------------------------------------------------
\* Activity tracking
\* ------------------------------------------------------------------------

\* The bash commands the hooks tell apart.
GitCommitCmd == "git commit -m fix"
TestCmd == "npm test"
CommitAndTestCmd == "git commit -m fix && npm test"
OtherCmd == "ls"

\* /\bgit\s+commit\b/ on these commands.
isGitCommit(command) == command \in {GitCommitCmd, CommitAndTestCmd}
\* The test-runner pattern on these commands.
isTestRun(command) == command \in {TestCmd, CommitAndTestCmd}

\* A debouncedLogEdit that sets the timer of the path without clearing the
\* pending one.
debouncedLogEditLeaking(w0, p, filePath, dateNow) ==
  CHOOSE r0 \in {(
    LET due == dateNow - EpochMs + EDIT_DEBOUNCE_MS
    IN [setTimeout(w, p, "edit", filePath, due)
          EXCEPT !.tracking[p].pendingEdits =
                   {e \in @ : e.path # filePath}
                     \cup {[path |-> filePath, timer |-> due]}]
  ) : w \in {w0}} : TRUE

\* debouncedLogEdit: the timer of the path is cleared and set again.
debouncedLogEdit(w0, p, filePath, dateNow) ==
  CHOOSE r0 \in {(
    LET existing == {e \in w.tracking[p].pendingEdits : e.path = filePath}
        due == dateNow - EpochMs + EDIT_DEBOUNCE_MS
        w1 == IF existing = {} THEN w
              ELSE clearTimeout(w, p, "edit", filePath,
                                (CHOOSE e \in existing : TRUE).timer)
    IN [setTimeout(w1, p, "edit", filePath, due)
          EXCEPT !.tracking[p].pendingEdits =
                   (@ \ existing) \cup {[path |-> filePath, timer |-> due]}]
  ) : w \in {w0}} : TRUE

\* A restart that sets the timer of a rolling window without clearing the
\* pending one.
restartWindowLeaking(w0, p, timer, dateNow) ==
  CHOOSE r0 \in {(
    LET due == dateNow - EpochMs + RECENT_WINDOW_MS
    IN [setTimeout(w, p, timer, NoKey, due)
          EXCEPT !.tracking[p][timer] = due]
  ) : w \in {w0}} : TRUE

\* The timer of a rolling window is cleared and set again.
restartWindow(w0, p, timer, dateNow) ==
  CHOOSE r0 \in {(
    LET due == dateNow - EpochMs + RECENT_WINDOW_MS
    IN [setTimeout(clearTimeout(w, p, timer, NoKey, w.tracking[p][timer]),
                   p, timer, NoKey, due)
          EXCEPT !.tracking[p][timer] = due]
  ) : w \in {w0}} : TRUE

trackRecentEdit(w, p, dateNow) ==
  restartWindow([w EXCEPT !.tracking[p].recentEdits = @ + 1],
                p, "recentEditTimer", dateNow)
trackRecentCommit(w, p, dateNow) ==
  restartWindow([w EXCEPT !.tracking[p].recentCommit = TRUE],
                p, "recentCommitTimer", dateNow)
trackRecentTest(w, p, dateNow) ==
  restartWindow([w EXCEPT !.tracking[p].recentTestRuns = @ + 1],
                p, "recentTestTimer", dateNow)

\* The texts of currentActivity and of the generated statuses.
Editing == <<"e", "d", "i", "t", "i", "n", "g">>
Reading == <<"r", "e", "a", "d", "i", "n", "g">>
Committing == <<"c", "o", "m", "m", "i", "t", "t", "i", "n", "g">>
RunningTests ==
  <<"r", "u", "n", "n", "i", "n", "g", " ", "t", "e", "s", "t", "s">>
JustArrived == <<"j", "u", "s", "t", " ", "a", "r", "r", "i", "v", "e", "d">>
JustShipped == <<"j", "u", "s", "t", " ", "s", "h", "i", "p", "p", "e", "d">>
Debugging == <<"d", "e", "b", "u", "g", "g", "i", "n", "g", ".", ".", ".">>
OnFire == <<"o", "n", " ", "f", "i", "r", "e">>
Exploring ==
  <<"e", "x", "p", "l", "o", "r", "i", "n", "g", " ", "t", "h", "e", " ",
    "c", "o", "d", "e", "b", "a", "s", "e">>
DeepInThought ==
  <<"d", "e", "e", "p", " ", "i", "n", " ", "t", "h", "o", "u", "g", "h",
    "t">>

\* parts.join("/")
RECURSIVE JoinWith(_, _)
JoinWith(parts, sep) ==
  IF parts = <<>> THEN <<>>
  ELSE IF Len(parts) = 1 THEN Head(parts)
  ELSE Head(parts) \o <<sep>> \o JoinWith(Tail(parts), sep)

shortenPath(filePath) ==
  LET parts == SplitOn(filePath, "/")
  IN IF Len(parts) > 2 THEN JoinWith(Slice(parts, 0 - 2), "/") ELSE filePath

\* The thresholds of generateAutoStatus.
FRESH_MS == 30000
DEBUGGING_RUNS == 3
ON_FIRE_EDITS == 8

\* generateAutoStatus with the recent commit ranked below the counters.
generateAutoStatusCommitLast(w, p, dateNow) ==
  LET st == w.state[p]
      tr == w.tracking[p]
  IN IF dateNow - (EpochMs + st.sessionStartedAt) < FRESH_MS THEN JustArrived
     ELSE IF tr.recentTestRuns >= DEBUGGING_RUNS THEN Debugging
     ELSE IF tr.recentEdits >= ON_FIRE_EDITS THEN OnFire
     ELSE IF tr.recentCommit THEN JustShipped
     ELSE IF StartsWith(st.currentActivity, Reading) THEN Exploring
     ELSE IF StartsWith(st.currentActivity, Editing) THEN DeepInThought
     ELSE NoStatus

\* generateAutoStatus; dateNow is Date.now().
generateAutoStatus(w, p, dateNow) ==
  LET st == w.state[p]
      tr == w.tracking[p]
  IN IF dateNow - (EpochMs + st.sessionStartedAt) < FRESH_MS THEN JustArrived
     ELSE IF tr.recentCommit THEN JustShipped
     ELSE IF tr.recentTestRuns >= DEBUGGING_RUNS THEN Debugging
     ELSE IF tr.recentEdits >= ON_FIRE_EDITS THEN OnFire
     ELSE IF StartsWith(st.currentActivity, Reading) THEN Exploring
     ELSE IF StartsWith(st.currentActivity, Editing) THEN DeepInThought
     ELSE NoStatus

updateAutoStatus(w, p, dateNow) ==
  IF ~w.state[p].registered \/ w.state[p].customStatus THEN w
  ELSE [w EXCEPT !.state[p].statusMessage = generateAutoStatus(w, p, dateNow)]

\* tracking.onToolCall; input is the path of write, edit and read and the
\* command of bash.
onToolCall(w0, p, tool, input, dateNow) ==
  CHOOSE r0 \in {(
  IF ~w.state[p].registered THEN w
  ELSE updateAutoStatus(
    IF tool \in {"write", "edit"} /\ input # <<>>
    THEN trackRecentEdit(
           debouncedLogEdit(
             [w EXCEPT !.state[p].currentActivity =
                         Editing \o <<" ">> \o shortenPath(input)],
             p, input, dateNow), p, dateNow)
    ELSE IF tool = "read" /\ input # <<>>
    THEN [w EXCEPT !.state[p].currentActivity =
                     Reading \o <<" ">> \o shortenPath(input)]
    ELSE IF tool = "bash" /\ isGitCommit(input)
    THEN [w EXCEPT !.state[p].currentActivity = Committing]
    ELSE IF tool = "bash" /\ isTestRun(input)
    THEN [w EXCEPT !.state[p].currentActivity = RunningTests]
    ELSE w, p, dateNow)
  ) : w \in {w0}} : TRUE

\* An addModifiedFile that does not take out the earlier entry of the path.
addModifiedFileKeeping(w0, p, filePath) ==
  CHOOSE r0 \in {(
  LET pushed == Append(w.state[p].filesModified, filePath)
  IN [w EXCEPT !.state[p].filesModified =
                 IF Len(pushed) > MAX_FILES_MODIFIED THEN Tail(pushed)
                 ELSE pushed]
  ) : w \in {w0}} : TRUE

\* addModifiedFile: indexOf and splice, push, shift beyond the limit.
addModifiedFile(w0, p, filePath) ==
  CHOOSE r0 \in {(
  LET files == w.state[p].filesModified
      found == {i \in 1..Len(files) : files[i] = filePath}
      idx == IF found = {} THEN 0
             ELSE CHOOSE i \in found : \A j \in found : i <= j
      spliced == IF idx = 0 THEN files
                 ELSE SubSeq(files, 1, idx - 1)
                        \o SubSeq(files, idx + 1, Len(files))
      pushed == Append(spliced, filePath)
  IN [w EXCEPT !.state[p].filesModified =
                 IF Len(pushed) > MAX_FILES_MODIFIED THEN Tail(pushed)
                 ELSE pushed]
  ) : w \in {w0}} : TRUE

\* tracking.onToolResult; command is input.path of an edit or write and
\* input.command of bash.
onToolResult(w0, p, tool, command, isError, dateNow) ==
  CHOOSE r0 \in {(
  IF ~w.state[p].registered THEN w
  ELSE LET agent == w.state[p].agentName
           wf == IF tool \in {"write", "edit"} /\ command # <<>>
                 THEN addModifiedFile(w, p, command) ELSE w
           w1 == IF tool = "bash" /\ isGitCommit(command)
                 THEN trackRecentCommit(
                        logEvent(wf, agent, "commit", NoTarget), p,
                        dateNow)
                 ELSE wf
           w2 == IF tool = "bash" /\ isTestRun(command)
                 THEN trackRecentTest(
                        logEvent(w1, agent, "test", NoTarget), p,
                        dateNow)
                 ELSE w1
       IN updateAutoStatus(
            [w2 EXCEPT !.state[p].currentActivity = NoActivity], p, dateNow)
  ) : w \in {w0}} : TRUE

\* A cleanup that forgets the rolling-window timers.
trackingCleanupEdits(w, p) ==
  [w EXCEPT !.tracking[p].pendingEdits = {},
            !.timeouts[p] =
              @ \ {[id |-> "edit", key |-> e.path, due |-> e.timer] :
                     e \in w.tracking[p].pendingEdits}]

\* tracking.cleanup
trackingCleanup(w, p) ==
  [trackingCleanupEdits(w, p) EXCEPT
     !.tracking[p].recentCommitTimer = NoTimer,
     !.tracking[p].recentTestTimer = NoTimer,
     !.tracking[p].recentEditTimer = NoTimer,
     !.timeouts[p] =
       @ \ {[id |-> timer, key |-> NoKey, due |-> w.tracking[p][timer]] :
              timer \in {"recentCommitTimer", "recentTestTimer",
                         "recentEditTimer"}}]

\* scheduleRegistryFlush
scheduleRegistryFlush(w0, p) ==
  CHOOSE r0 \in {(
  IF w.state[p].registryFlushTimer THEN w
  ELSE [w EXCEPT !.state[p].registryFlushTimer = TRUE]
  ) : w \in {w0}} : TRUE

\* flushActivityToRegistry: read-modify-write of the caller's own record;
\* the fields it replaces (model, session, activity, statusMessage) are not
\* part of the records here.
flushActivityToRegistry(w0, p) ==
  CHOOSE r0 \in {(
  LET name == w.state[p].agentName IN
  IF ~w.state[p].registered THEN w
  ELSE IF name \notin DOMAIN w.registry THEN w
  ELSE IF ~Parses(w.registry[name]) THEN w
  ELSE [w EXCEPT !.registry[name] = w.registry[name]]
  ) : w \in {w0}} : TRUE

\* ------------------------------------------------------------------------
\* Handlers, each run from start to end
\* ------------------------------------------------------------------------

\* The host calls a handler of p only while p runs and is in no other call.
Ready(p) == p \in alive /\ phase[p] = "running" /\ call[p] = Idle

\* The handler ends in world w with event e.
Done(w, p, e) ==
  \E v \in {w} :
    /\ LineCount(v.feed) <= MaxFeed
    /\ Commit([v EXCEPT !.call[p] = Idle])
    /\ ev' = e

Tick ==
  /\ now < MaxTicks * TickMs
  /\ now' = now + TickMs
  /\ ev' = NoEvent
  /\ UNCHANGED <<alive, envName, config, phase, registry, inbox, feed, state,
                 agentsCache, tracking, guard, timeouts, delivered, notify, call,
                 nextId>>

\* The process dies without running its shutdown handler.
Crash(p) ==
  /\ p \in alive
  /\ alive' = alive \ {p}
  /\ ev' = NoEvent
  /\ UNCHANGED <<now, envName, config, phase, registry, inbox, feed, state,
                 agentsCache, tracking, guard, timeouts, delivered, notify, call,
                 nextId>>

\* pi.on("session_start"); auto: autoRegister or autoRegisterPaths applies.
SessionStart(p, auto, watchOk) ==
  /\ p \in alive /\ phase[p] = "new" /\ call[p] = Idle
  /\ phase' = [phase EXCEPT ![p] = "running"]
  /\ LET arg == [watchOk |-> watchOk]
         w == IF auto
              THEN joinFinish(register(
                     Enter(World, p, "session_start", arg), p), p)
              ELSE World
     IN Done(w, p, IF auto
                   THEN [op |-> "session_start", p |-> p,
                         result |-> w.call[p].result]
                   ELSE NoEvent)
  /\ UNCHANGED <<now, alive, envName, config, nextId>>

\* The /mesh command.
MeshCommand(p, watchOk) ==
  /\ Ready(p)
  /\ LET arg == [watchOk |-> watchOk]
         w == joinFinish(register(Enter(World, p, "mesh", arg), p), p)
     IN Done(w, p, [op |-> "mesh", p |-> p,
                    result |-> w.call[p].result])
  /\ UNCHANGED <<now, alive, envName, config, phase, nextId>>

\* No process: the owner of a record that is absent or unreadable.
NoPid == 0

\* mesh_manage rename: executeRename.
Rename(p, newName, watchOk) ==
  /\ Ready(p)
  /\ state[p].registered
  /\ LET arg == [name |-> newName, watchOk |-> watchOk]
         w == renameFinish(renameAgent(
                Enter(World, p, "rename", arg), p), p)
         prior == IF newName \in DOMAIN registry /\ Parses(registry[newName])
                  THEN registry[newName].pid ELSE NoPid
     IN Done(w, p, [op |-> "rename", p |-> p, name |-> newName,
                    prior |-> prior, result |-> w.call[p].result])
  /\ UNCHANGED <<now, alive, envName, config, phase, nextId>>

\* mesh_reserve with one path.
Reserve(p, pattern, reason) ==
  /\ Ready(p)
  /\ state[p].registered
  /\ Done(addReservation(World, p, pattern, reason), p,
          [op |-> "mesh_reserve", p |-> p, pattern |-> pattern,
           reason |-> reason])
  /\ UNCHANGED <<now, alive, envName, config, phase, nextId>>

\* mesh_release with one path.
Release(p, pattern) ==
  /\ Ready(p)
  /\ state[p].registered
  /\ Done(removeReservation(World, p, pattern), p,
          [op |-> "mesh_release", p |-> p, pattern |-> pattern])
  /\ UNCHANGED <<now, alive, envName, config, phase, nextId>>

\* mesh_release without paths.
ReleaseAll(p) ==
  /\ Ready(p)
  /\ state[p].registered
  /\ Done(removeAllReservations(World, p), p,
          [op |-> "mesh_release_all", p |-> p])
  /\ UNCHANGED <<now, alive, envName, config, phase, nextId>>

\* pi.on("tool_call"): the reservation gate, then the activity tracking.
ToolCall(p, tool, path) ==
  /\ Ready(p)
  /\ LET gated == state[p].registered /\ tool \in {"edit", "write"}
         r == IF gated THEN getConflicts(path, World, p)
              ELSE [w |-> World, conflicts |-> <<>>]
     IN Done(IF r.conflicts # <<>> THEN r.w
             ELSE onToolCall(r.w, p, tool, path, DateNow),
             p, [op |-> "tool_call", p |-> p, tool |-> tool,
                 path |-> path, conflicts |-> r.conflicts,
                 block |-> r.conflicts # <<>>])
  /\ UNCHANGED <<now, alive, envName, config, phase, nextId>>

\* pi.on("tool_call") for a bash command: no gate, the activity tracking.
ToolCallBash(p, command) ==
  /\ Ready(p)
  /\ Done(onToolCall(World, p, "bash", command, DateNow), p,
          [op |-> "tool_call", p |-> p, tool |-> "bash", path |-> <<>>,
           command |-> command, conflicts |-> <<>>, block |-> FALSE])
  /\ UNCHANGED <<now, alive, envName, config, phase, nextId>>

\* mesh_manage set_status; an absent message is the empty text.
executeSetStatus(w, p, message) ==
  updateRegistration(
    IF message = <<>> \/ Trim(message) = <<>>
    THEN [w EXCEPT !.state[p].statusMessage = NoStatus,
                   !.state[p].customStatus = FALSE]
    ELSE [w EXCEPT !.state[p].statusMessage = Trim(message),
                   !.state[p].customStatus = TRUE], p)

SetStatus(p, message) ==
  /\ Ready(p)
  /\ state[p].registered
  /\ Done(executeSetStatus(World, p, message), p,
          [op |-> "set_status", p |-> p, message |-> message])
  /\ UNCHANGED <<now, alive, envName, config, phase, nextId>>

\* mesh_peers: getAllAgents.
Peers(p) ==
  /\ Ready(p)
  /\ state[p].registered
  /\ LET r == getAllAgents(World, p)
     IN Done(r.w, p, [op |-> "mesh_peers", p |-> p, agents |-> r.agents,
                      hit |-> CacheFresh(agentsCache[p])])
  /\ UNCHANGED <<now, alive, envName, config, phase, nextId>>

\* mesh_send to one recipient.
Send(p, to, urgent, random) ==
  /\ Ready(p)
  /\ state[p].registered
  /\ to # state[p].agentName
  /\ nextId < MaxMsgs
  /\ LET v == validateRecipient(World, to)
         id == nextId + 1
     IN IF v.valid
        THEN /\ nextId' = id
             /\ Done(logEvent(sendMessage(v.w, p, to, urgent, random, id),
                              state[p].agentName, "message", to), p,
                     [op |-> "mesh_send", p |-> p, to |-> to,
                      result |-> "sent"])
        ELSE /\ nextId' = nextId
             /\ Done(v.w, p, [op |-> "mesh_send", p |-> p, to |-> to,
                              result |-> v.error])
  /\ UNCHANGED <<now, alive, envName, config, phase>>

\* mesh_send with broadcast: true; randoms are the suffixes the file names
\* draw, in order.
Broadcast(p, urgent, randoms) ==
  /\ Ready(p)
  /\ state[p].registered
  /\ \E b \in {broadcastMessage(World, p, urgent, randoms, nextId)} :
       LET n == Len(b.messages)
       IN /\ nextId + n <= MaxMsgs
          /\ nextId' = nextId + n
          /\ Done(IF n = 0 THEN b.w
                  ELSE logEvent(b.w, state[p].agentName, "message",
                                NoTarget),
                  p, [op |-> "broadcast", p |-> p, messages |-> b.messages,
                      result |-> IF n = 0 THEN "none" ELSE "sent"])
  /\ UNCHANGED <<now, alive, envName, config, phase>>

\* mesh_send whose process dies inside fs.writeFileSync: the message file is
\* left truncated.
SendTruncated(p, to, random) ==
  /\ Ready(p)
  /\ state[p].registered
  /\ to # state[p].agentName
  /\ nextId < MaxMsgs
  /\ validateRecipient(World, to).valid
  /\ nextId' = nextId + 1
  /\ alive' = alive \ {p}
  /\ Done(writeMessageFile(World, to, random, Malformed), p, NoEvent)
  /\ UNCHANGED <<now, envName, config, phase>>

\* mesh_send to one recipient when fs.writeFileSync throws inside
\* sendMessage: sendMessage rethrows and execute has no handler, so the
\* error leaves the tool; partial tells whether the failed write left a
\* truncated file.
SendWriteFails(p, to, random, partial) ==
  /\ Ready(p)
  /\ state[p].registered
  /\ to # state[p].agentName
  /\ nextId < MaxMsgs
  /\ \E v \in {validateRecipient(World, to)} :
       /\ v.valid
       /\ nextId' = nextId + 1
       /\ Done(IF partial
               THEN writeMessageFile(v.w, to, random, Malformed)
               ELSE ensureInboxDir(v.w, to),
               p, [op |-> "mesh_send", p |-> p, to |-> to,
                   result |-> "throws"])
  /\ UNCHANGED <<now, alive, envName, config, phase>>

\* mesh_send with broadcast: true when the write of the k-th message throws:
\* the messages before it are in their inboxes, the loop is left by the
\* error and nothing is logged.
BroadcastWriteFails(p, urgent, randoms, k) ==
  /\ Ready(p)
  /\ state[p].registered
  /\ nextId + k <= MaxMsgs
  /\ \E r \in {getActiveAgents(World, p)} :
       /\ k <= Len(r.agents)
       /\ \E b \in {BroadcastTo(r.w, p, SubSeq(r.agents, 1, k - 1), urgent,
                                randoms, nextId)} :
            /\ nextId' = nextId + k
            /\ Done(ensureInboxDir(b.w, r.agents[k].name), p,
                    [op |-> "broadcast", p |-> p, messages |-> b.messages,
                     result |-> "throws"])
  /\ UNCHANGED <<now, alive, envName, config, phase>>

\* pi.on("tool_result") for a bash command.
ToolResult(p, command, isError) ==
  /\ Ready(p)
  /\ state[p].registered
  /\ Done(scheduleRegistryFlush(
            onToolResult(World, p, "bash", command, isError, DateNow), p),
          p, [op |-> "tool_result", p |-> p, command |-> command,
              tool |-> "bash", path |-> <<>>])
  /\ UNCHANGED <<now, alive, envName, config, phase, nextId>>

\* pi.on("tool_result") for an edit or a write of a file.
ToolResultFile(p, tool, filePath, isError) ==
  /\ Ready(p)
  /\ state[p].registered
  /\ Done(scheduleRegistryFlush(
            onToolResult(World, p, tool, filePath, isError, DateNow), p),
          p, [op |-> "tool_result", p |-> p, command |-> "",
              tool |-> tool, path |-> filePath])
  /\ UNCHANGED <<now, alive, envName, config, phase, nextId>>

\* The step leaves at most MaxEdits edits in the rolling window of p.
FewEdits(p) == tracking'[p].recentEdits <= MaxEdits

\* The event loop of p runs a callback: the process is alive, its extension
\* is loaded and it is in no other call.
Loop(p) == p \in alive /\ phase[p] # "new" /\ call[p] = Idle

\* The registry-flush timer fires.
RegistryFlushFire(p) ==
  /\ Loop(p)
  /\ state[p].registryFlushTimer
  /\ Done(flushActivityToRegistry(
            [World EXCEPT !.state[p].registryFlushTimer = FALSE], p),
          p, [op |-> "timer", p |-> p, timer |-> "registryFlush"])
  /\ UNCHANGED <<now, alive, envName, config, phase, nextId>>

\* The edit-debounce timer of a path fires.
EditLogFire(p, filePath) ==
  /\ Loop(p)
  /\ \E t \in PendingTimeouts(World, p, "edit", filePath) :
       Done([logEvent([World EXCEPT !.timeouts[p] = @ \ {t}],
                      state[p].agentName, "edit", filePath)
               EXCEPT !.tracking[p].pendingEdits =
                        {e \in @ : e.path # filePath}],
            p, [op |-> "timer", p |-> p, timer |-> "edit",
                path |-> filePath, due |-> t.due])
  /\ UNCHANGED <<now, alive, envName, config, phase, nextId>>

\* A rolling-window timer fires and resets what its window counts.
WindowTimers == {"recentCommitTimer", "recentTestTimer", "recentEditTimer"}

WindowFire(p, timer) ==
  /\ Loop(p)
  /\ \E t \in PendingTimeouts(World, p, timer, NoKey) :
       Done([World EXCEPT
               !.timeouts[p] = @ \ {t},
               !.tracking[p].recentCommit =
                 IF timer = "recentCommitTimer" THEN FALSE ELSE @,
               !.tracking[p].recentTestRuns =
                 IF timer = "recentTestTimer" THEN 0 ELSE @,
               !.tracking[p].recentEdits =
                 IF timer = "recentEditTimer" THEN 0 ELSE @],
            p, [op |-> "timer", p |-> p, timer |-> timer, due |-> t.due])
  /\ UNCHANGED <<now, alive, envName, config, phase, nextId>>

\* A callback of fs.watch that sets a timer without clearing the pending
\* one.
watchCallbackLeaking(w, p, dateNow) ==
  [setTimeout(w, p, "watcherDebounceTimer", NoKey,
              dateNow - EpochMs + WATCHER_DEBOUNCE_MS)
     EXCEPT !.state[p].watcherDebounceTimer =
              dateNow - EpochMs + WATCHER_DEBOUNCE_MS]

\* The callback of fs.watch: clearTimeout of the pending timer, then
\* setTimeout.
watchCallback(w, p, dateNow) ==
  watchCallbackLeaking(
    clearTimeout(w, p, "watcherDebounceTimer", NoKey,
                 w.state[p].watcherDebounceTimer), p, dateNow)

\* The callback of fs.watch: (re)arms the debounce timer.
WatchEvent(p) ==
  /\ Loop(p)
  /\ notify[p]
  /\ state[p].watcher # NoWatch
  /\ Done(watchCallback([World EXCEPT !.notify[p] = FALSE], p, DateNow), p,
          [op |-> "watch_event", p |-> p,
           was |-> state[p].watcherDebounceTimer])
  /\ UNCHANGED <<now, alive, envName, config, phase, nextId>>

\* The debounce timer fires: the inbox is scanned.
DebounceFire(p) ==
  /\ Loop(p)
  /\ \E t \in PendingTimeouts(World, p, "watcherDebounceTimer", NoKey) :
       LET w == processInbox(
                  [World EXCEPT !.timeouts[p] = @ \ {t},
                                !.state[p].watcherDebounceTimer = NoTimer], p)
       IN Done(w, p, [op |-> "scan", p |-> p, by |-> "timer", due |-> t.due,
                      got |-> Len(w.delivered[p]) - Len(delivered[p])])
  /\ UNCHANGED <<now, alive, envName, config, phase, nextId>>

\* ------------------------------------------------------------------------
\* processInbox step by step, with a deliverFn through which the host calls
\* processInbox again
\* ------------------------------------------------------------------------

\* The sorted listing of the inbox of p; a missing directory and a listing
\* that fails give none.
InboxListing(w, p, listOk) ==
  LET dir == w.state[p].agentName
  IN IF dir \in DOMAIN w.inbox /\ listOk
     THEN SortStrings(DOMAIN w.inbox[dir])
     ELSE <<>>

\* processInbox up to the loop: scans counts the scans of the outermost
\* call, asked the calls that arrived during the scan in flight.
enterScan(w0, p, listOk, scans) ==
  CHOOSE r0 \in {(
  IF ~w.state[p].registered THEN [w EXCEPT !.call[p] = Idle]
  ELSE IF w.guard[p].isProcessingMessages
  THEN [w EXCEPT !.guard[p].pendingProcessArgs = TRUE, !.call[p] = Idle]
  ELSE [w EXCEPT !.guard[p].isProcessingMessages = TRUE,
                 !.call[p] = [pc |-> "scan",
                              files |-> InboxListing(w, p, listOk),
                              scans |-> scans + 1, asked |-> 0]]
  ) : w \in {w0}} : TRUE

\* The debounce timer fires: processInbox starts.
ScanBegin(p, listOk) ==
  /\ Loop(p)
  /\ \E t \in PendingTimeouts(World, p, "watcherDebounceTimer", NoKey) :
     \E v \in {enterScan([World EXCEPT
                            !.timeouts[p] = @ \ {t},
                            !.state[p].watcherDebounceTimer = NoTimer],
                         p, listOk, 0)} :
       /\ Commit(v)
       /\ ev' = [op |-> "scan_begin", p |-> p,
                 entered |-> v.call[p] # Idle]
  /\ UNCHANGED <<now, alive, envName, config, phase, nextId>>

\* n calls of processInbox one after another.
RECURSIVE requestScans(_, _, _)
requestScans(w, p, n) ==
  IF n = 0 THEN w ELSE requestScans(processInbox(w, p), p, n - 1)

\* One round of the loop; while deliverFn runs the host calls processInbox
\* requests times, and deliverFn may throw.
ScanDeliver(p, requests, throws) ==
  /\ p \in alive
  /\ At(World, p, "scan")
  /\ call[p].files # <<>>
  /\ LET dir == state[p].agentName
         file == Head(call[p].files)
         readable == /\ dir \in DOMAIN inbox
                     /\ file \in DOMAIN inbox[dir]
                     /\ Parses(inbox[dir][file])
         w1 == IF readable
               THEN storeMessage(World, p, inbox[dir][file]) ELSE World
         asked == IF readable THEN requests ELSE 0
         w2 == requestScans(w1, p, asked)
         w3 == IF readable /\ ~throws
               THEN [w2 EXCEPT !.delivered[p] = Append(@, inbox[dir][file])]
               ELSE w2
         w4 == IF dir \in DOMAIN w3.inbox /\ file \in DOMAIN w3.inbox[dir]
               THEN NotifyWatchers(
                      [w3 EXCEPT !.inbox[dir] = Del(@, file)], dir)
               ELSE w3
     IN /\ Commit([w4 EXCEPT !.call[p].files = Tail(@),
                             !.call[p].asked = @ + asked])
        /\ ev' = [op |-> "scan_deliver", p |-> p, requests |-> asked,
                  throws |-> readable /\ throws,
                  deferred |->
                    w2 = IF asked = 0 THEN w1
                         ELSE [w1 EXCEPT
                                 !.guard[p].pendingProcessArgs = TRUE]]
  /\ UNCHANGED <<now, alive, envName, config, phase, nextId>>

\* The finally block: the flag is cleared and a pending request runs
\* processInbox once more.
ScanEnd(p, listOk) ==
  /\ p \in alive
  /\ At(World, p, "scan")
  /\ call[p].files = <<>>
  /\ LET w1 == [World EXCEPT !.guard[p].isProcessingMessages = FALSE]
         rerun == w1.guard[p].pendingProcessArgs
         w2 == IF rerun
               THEN enterScan(
                      [w1 EXCEPT !.guard[p].pendingProcessArgs = FALSE],
                      p, listOk, call[p].scans)
               ELSE [w1 EXCEPT !.call[p] = Idle]
     IN /\ Commit(w2)
        /\ ev' = [op |-> "scan_end", p |-> p, asked |-> call[p].asked,
                  scans |-> call[p].scans, rerun |-> rerun]
  /\ UNCHANGED <<now, alive, envName, config, phase, nextId>>

\* The watcher reports an error.
WatcherError(p) ==
  /\ Loop(p)
  /\ state[p].watcher # NoWatch
  /\ Done(scheduleRetry(stopWatcher(World, p), p), p, NoEvent)
  /\ UNCHANGED <<now, alive, envName, config, phase, nextId>>

\* The retry timer fires.
RetryFire(p, watchOk) ==
  /\ Loop(p)
  /\ state[p].watcherRetryTimer # NoTimer
  /\ Done(startWatcher(
            [World EXCEPT !.state[p].watcherRetryTimer = NoTimer],
            p, watchOk), p,
          [op |-> "timer", p |-> p, timer |-> "watcherRetry"])
  /\ UNCHANGED <<now, alive, envName, config, phase, nextId>>

\* pi.on("turn_end")
\* usage: the message of the turn reports tokens used.
TurnEnd(p, watchOk, usage) ==
  /\ Ready(p)
  /\ LET w1 == updateStatusBar(
                 recoverWatcherIfNeeded(processInbox(World, p), p, watchOk),
                 p)
         w == IF w1.state[p].registered /\ usage
              THEN scheduleRegistryFlush(w1, p) ELSE w1
     IN Done(w, p, [op |-> "scan", p |-> p, by |-> "turn_end",
                    got |-> Len(w.delivered[p]) - Len(delivered[p])])
  /\ UNCHANGED <<now, alive, envName, config, phase, nextId>>

\* pi.on("session_switch") and pi.on("session_fork")
SessionSwitch(p, watchOk) ==
  /\ Ready(p)
  /\ Done(updateStatusBar(recoverWatcherIfNeeded(World, p, watchOk), p), p,
          [op |-> "session_switch", p |-> p, watchOk |-> watchOk,
           was |-> state[p].watcherRetries])
  /\ UNCHANGED <<now, alive, envName, config, phase, nextId>>

\* pi.on("session_shutdown")
Shutdown(p) ==
  /\ Ready(p)
  /\ phase' = [phase EXCEPT ![p] = "shutdown"]
  /\ LET w1 == IF state[p].registered
               THEN LET w0 == logEvent(World, state[p].agentName,
                                       "leave", NoTarget)
                    IN IF w0.state[p].reservations # <<>>
                       THEN removeAllReservations(w0, p) ELSE w0
               ELSE World
         w2 == [w1 EXCEPT !.state[p].registryFlushTimer = FALSE]
     IN Done(unregister(stopWatcher(trackingCleanup(w2, p), p), p), p,
             [op |-> "shutdown", p |-> p,
              retry |-> state[p].watcherRetryTimer # NoTimer,
              had |-> [flush |-> state[p].registryFlushTimer,
                       edits |-> tracking[p].pendingEdits # {},
                       commit |-> PendingTimeouts(
                         World, p, "recentCommitTimer", NoKey) # {},
                       test |-> PendingTimeouts(
                         World, p, "recentTestTimer", NoKey) # {},
                       edit |-> PendingTimeouts(
                         World, p, "recentEditTimer", NoKey) # {},
                       debounce |-> state[p].watcherDebounceTimer # NoTimer,
                       watch |-> state[p].watcher # NoWatch]])
  /\ UNCHANGED <<now, alive, envName, config, nextId>>

\* ------------------------------------------------------------------------
\* /mesh and rename, one filesystem access per step
\* ------------------------------------------------------------------------

\* What the caller of register or renameAgent does once it has returned.
Finish(w, p) ==
  IF w.call[p].op = "rename" THEN renameFinish(w, p) ELSE joinFinish(w, p)

\* One step of a call has produced world w: the handler goes on from there,
\* or ends if the call has returned.
Settle(w, p) ==
  \E v \in {w} :
    IF At(v, p, "return")
    THEN Done(Finish(v, p), p,
              [op |-> v.call[p].op, p |-> p, result |-> v.call[p].result])
    ELSE Commit(v) /\ ev' = NoEvent

Running(p, pc) == p \in alive /\ call[p] # Idle /\ call[p].pc = pc

JoinBegin(p) ==
  /\ Ready(p)
  /\ Settle(registerBegin(Enter(World, p, "mesh", [watchOk |-> TRUE]), p), p)
  /\ UNCHANGED <<now, alive, envName, config, phase, nextId>>

RegisterCheck(p) ==
  /\ Running(p, "reg_check")
  /\ Settle(registerCheck(World, p), p)
  /\ UNCHANGED <<now, alive, envName, config, phase, nextId>>

RegisterWrite(p) ==
  /\ Running(p, "reg_write")
  /\ Settle(registerWrite(World, p), p)
  /\ UNCHANGED <<now, alive, envName, config, phase, nextId>>

RegisterVerify(p) ==
  /\ Running(p, "reg_verify")
  /\ Settle(registerVerify(World, p), p)
  /\ UNCHANGED <<now, alive, envName, config, phase, nextId>>

RenameBegin(p, newName) ==
  /\ Ready(p)
  /\ state[p].registered
  /\ Settle(renameBegin(Enter(World, p, "rename",
                              [name |-> newName, watchOk |-> TRUE]), p), p)
  /\ UNCHANGED <<now, alive, envName, config, phase, nextId>>

RenameWrite(p) ==
  /\ Running(p, "ren_write")
  /\ Settle(renameWrite(World, p), p)
  /\ UNCHANGED <<now, alive, envName, config, phase, nextId>>

RenameVerify(p) ==
  /\ Running(p, "ren_verify")
  /\ Settle(renameVerify(World, p), p)
  /\ UNCHANGED <<now, alive, envName, config, phase, nextId>>

RenameUnlinkOld(p) ==
  /\ Running(p, "ren_unlink")
  /\ Settle(renameUnlinkOld(World, p), p)
  /\ UNCHANGED <<now, alive, envName, config, phase, nextId>>

RenameInbox(p) ==
  /\ Running(p, "ren_inbox")
  /\ Settle(renameInbox(World, p), p)
  /\ UNCHANGED <<now, alive, envName, config, phase, nextId>>

\* ------------------------------------------------------------------------
\* Specifications
\* ------------------------------------------------------------------------

\* ------------------------------------------------------------------------
\* Status
\* ------------------------------------------------------------------------

\* Numbers that may be NaN.
NaN == [nan |-> TRUE]
Num(n) == [nan |-> FALSE, n |-> n]

\* The value of a string of digits.
RECURSIVE FromDigits(_)
FromDigits(s) ==
  IF s = <<>> THEN 0
  ELSE 10 * FromDigits(SubSeq(s, 1, Len(s) - 1))
       + (CHOOSE d \in 0..9 : Digit[d + 1] = s[Len(s)])

IsDigits(s) == Len(s) > 0 /\ \A i \in 1..Len(s) : \E d \in 1..10 : s[i] = Digit[d]

\* new Date(text).getTime(): NaN for a text that is not a timestamp.
getTime(text) ==
  IF IsDigits(text) THEN Num(FromDigits(text))
  ELSE IF Len(text) > 1 /\ Head(text) = "-" /\ IsDigits(Tail(text))
       THEN Num(0 - FromDigits(Tail(text)))
  ELSE NaN

ACTIVE_MS == 30000
IDLE_MS == 300000

\* formatDuration
formatDuration(ms) ==
  LET seconds == ms \div 1000
      minutes == seconds \div 60
      hours == minutes \div 60
  IN IF hours > 0
     THEN ToDigits(hours) \o <<"h", " ">> \o ToDigits(minutes % 60) \o <<"m">>
     ELSE IF minutes > 0
     THEN ToDigits(minutes) \o <<"m", " ">> \o ToDigits(seconds % 60)
          \o <<"s">>
     ELSE ToDigits(seconds) \o <<"s">>

\* A version without the idle window below IDLE_MS.
computeStatusNoIdle(lastActivityAt, hasReservation, thresholdMs) ==
  LET t == getTime(lastActivityAt)
  IN IF t.nan \/ DateNow - t.n < 0 THEN [status |-> "active"]
     ELSE LET elapsed == DateNow - t.n
          IN IF elapsed < ACTIVE_MS THEN [status |-> "active"]
             ELSE IF ~hasReservation
             THEN [status |-> "away", idleFor |-> formatDuration(elapsed)]
             ELSE IF elapsed >= thresholdMs
             THEN [status |-> "stuck", idleFor |-> formatDuration(elapsed)]
             ELSE [status |-> "idle", idleFor |-> formatDuration(elapsed)]

\* A version without the reservation test.
computeStatusNoAway(lastActivityAt, hasReservation, thresholdMs) ==
  LET t == getTime(lastActivityAt)
  IN IF t.nan \/ DateNow - t.n < 0 THEN [status |-> "active"]
     ELSE LET elapsed == DateNow - t.n
          IN IF elapsed < ACTIVE_MS THEN [status |-> "active"]
             ELSE IF elapsed < IDLE_MS
             THEN [status |-> "idle", idleFor |-> formatDuration(elapsed)]
             ELSE IF elapsed >= thresholdMs
             THEN [status |-> "stuck", idleFor |-> formatDuration(elapsed)]
             ELSE [status |-> "idle", idleFor |-> formatDuration(elapsed)]

\* computeStatus; Date.now() - NaN is NaN.
computeStatus(lastActivityAt, hasReservation, thresholdMs) ==
  LET t == getTime(lastActivityAt)
  IN IF t.nan \/ DateNow - t.n < 0 THEN [status |-> "active"]
     ELSE LET elapsed == DateNow - t.n
          IN IF elapsed < ACTIVE_MS THEN [status |-> "active"]
             ELSE IF elapsed < IDLE_MS
             THEN [status |-> "idle", idleFor |-> formatDuration(elapsed)]
             ELSE IF ~hasReservation
             THEN [status |-> "away", idleFor |-> formatDuration(elapsed)]
             ELSE IF elapsed >= thresholdMs
             THEN [status |-> "stuck", idleFor |-> formatDuration(elapsed)]
             ELSE [status |-> "idle", idleFor |-> formatDuration(elapsed)]

\* Where a specification gives the processes roles, the lowest process is
\* the sender and the highest the receiver.
Sender == CHOOSE p \in Procs : \A q \in Procs : p <= q
Receiver == CHOOSE p \in Procs : \A q \in Procs : p >= q

\* Registry, reservations and the gate; the tool calls are the highest
\* process's, the lowest process is the one that releases and crashes;
\* every handler runs from start to end.
Next ==
  \/ Tick
  \/ Crash(Sender)
  \/ \E p \in Procs : SessionStart(p, FALSE, TRUE)
  \/ \E p \in Procs : MeshCommand(p, TRUE)
  \/ \E p \in Procs : Reserve(p, SrcAuthDir, "refactor")
  \/ Release(Sender, SrcAuthDir)
  \/ \E f \in {SrcAuthLogin, SrcAuthorization} :
        ToolCall(Receiver, "edit", f) /\ FewEdits(Receiver)
  \/ ToolCall(Receiver, "read", SrcAuthLogin)
  \/ Peers(Receiver)

Spec == Init /\ [][Next]_vars

\* Registration and renaming, with names from PI_AGENT_NAME; every handler
\* runs from start to end.
NextRename ==
  \/ Tick
  \/ \E p \in Procs : Crash(p)
  \/ \E p \in Procs, auto \in BOOLEAN : SessionStart(p, auto, TRUE)
  \/ \E p \in Procs : MeshCommand(p, TRUE)
  \/ \E n \in RenameTargets : Rename(Receiver, n, TRUE)
  \/ \E p \in Procs : Peers(p)

SpecRename == InitEnv /\ [][NextRename]_vars

\* The peer-list cache: joins, renames and leaves of the caller and of its
\* peers, peers that die, and calls inside and outside the TTL.
NextCache ==
  \/ Tick
  \/ Crash(Sender)
  \/ \E p \in Procs : SessionStart(p, FALSE, TRUE)
  \/ \E p \in Procs : MeshCommand(p, TRUE)
  \/ \E n \in {ZedName, SeqName(1)} : Rename(Receiver, n, TRUE)
  \/ Rename(Sender, ZedName, TRUE)
  \/ \E p \in Procs : Peers(p)
  \/ Shutdown(Receiver)

SpecCache == Init /\ [][NextCache]_vars

\* Messaging between two agents: the lowest process sends, the highest
\* receives; every handler runs from start to end.
NextMsg ==
  \/ Tick
  \/ \E p \in Procs : SessionStart(p, FALSE, TRUE)
  \/ \E p \in Procs : MeshCommand(p, TRUE)
  \/ \E to \in {SeqName(1), SeqName(2)}, r \in Suffixes :
        Send(Sender, to, FALSE, r)
  \/ \E to \in {SeqName(1), SeqName(2)}, r \in Suffixes :
        SendTruncated(Sender, to, r)
  \/ WatchEvent(Receiver)
  \/ DebounceFire(Receiver)
  \/ WatcherError(Receiver)
  \/ RetryFire(Receiver, TRUE)
  \/ TurnEnd(Receiver, TRUE, FALSE)

SpecMsg == Init /\ [][NextMsg]_vars

\* Messaging with renames; the event loop of the receiver runs every
\* callback that is due, and its turns keep ending.
NextFair ==
  \/ Tick
  \/ \E p \in Procs : SessionStart(p, FALSE, TRUE)
  \/ \E p \in Procs : MeshCommand(p, TRUE)
  \/ \E to \in {SeqName(1), SeqName(2)}, r \in Suffixes :
        Send(Sender, to, FALSE, r)
  \/ WatchEvent(Receiver)
  \/ DebounceFire(Receiver)
  \/ TurnEnd(Receiver, TRUE, FALSE)
  \/ Rename(Receiver, ZedName, TRUE)

SpecFair ==
  /\ Init
  /\ [][NextFair]_vars
  /\ WF_vars(WatchEvent(Receiver))
  /\ WF_vars(DebounceFire(Receiver))
  /\ WF_vars(TurnEnd(Receiver, TRUE, FALSE))

\* /mesh and rename of two processes, interleaved at their filesystem
\* accesses, with crashes and with the cleanup of mesh_peers.
NextRace ==
  \/ Tick
  \/ \E p \in Procs : Crash(p)
  \/ \E p \in Procs : SessionStart(p, FALSE, TRUE)
  \/ \E p \in Procs : JoinBegin(p)
  \/ \E p \in Procs : RegisterCheck(p)
  \/ \E p \in Procs : RegisterWrite(p)
  \/ \E p \in Procs : RegisterVerify(p)
  \/ \E p \in Procs : RenameBegin(p, ZedName)
  \/ \E p \in Procs : RenameWrite(p)
  \/ \E p \in Procs : RenameVerify(p)
  \/ \E p \in Procs : RenameUnlinkOld(p)
  \/ \E p \in Procs : RenameInbox(p)
  \/ \E p \in Procs : Peers(p)

SpecRace == Init /\ [][NextRace]_vars

\* Renames interleaved at their filesystem accesses; /mesh runs from start
\* to end, so every agent that calls renameAgent owns its record.
NextRenameRace ==
  \/ Tick
  \/ \E p \in Procs : Crash(p)
  \/ \E p \in Procs : SessionStart(p, FALSE, TRUE)
  \/ \E p \in Procs : MeshCommand(p, TRUE)
  \/ \E p \in Procs, n \in {SeqName(1), ZedName} : RenameBegin(p, n)
  \/ \E p \in Procs : RenameWrite(p)
  \/ \E p \in Procs : RenameVerify(p)
  \/ \E p \in Procs : RenameUnlinkOld(p)
  \/ \E p \in Procs : RenameInbox(p)
  \/ \E p \in Procs : Peers(p)

SpecRenameRace == Init /\ [][NextRenameRace]_vars

\* Broadcasts by the lowest process in a mesh where a further pi process,
\* which takes no step of its own but may die, is registered as "zed".
Outsider == Cardinality(Procs) + 1

InitCast ==
  /\ now = 0
  /\ config = DEFAULT_CONFIG
  /\ alive = Procs \cup {Outsider}
  /\ envName = [p \in Procs |-> NoName]
  /\ phase = [p \in Procs |-> "new"]
  /\ registry = Put(EmptyMap, ZedName,
                    [ok |-> TRUE, name |-> ZedName, pid |-> Outsider,
                     res |-> <<>>])
  /\ inbox = Put(EmptyMap, ZedName, EmptyMap)
  /\ feed = <<>>
  /\ state = [p \in Procs |-> InitialMeshState]
  /\ agentsCache = [p \in Procs |-> NoCache]
  /\ tracking = [p \in Procs |-> InitialTracking]
  /\ guard = [p \in Procs |-> InitialGuard]
  /\ timeouts = [p \in Procs |-> {}]
  /\ delivered = [p \in Procs |-> <<>>]
  /\ notify = [p \in Procs |-> FALSE]
  /\ call = [p \in Procs |-> Idle]
  /\ nextId = 0
  /\ ev = [op |-> "init"]

NextCast ==
  \/ Tick
  \/ \E p \in Procs \cup {Outsider} : Crash(p)
  \/ \E p \in Procs : SessionStart(p, FALSE, TRUE)
  \/ \E p \in Procs : MeshCommand(p, TRUE)
  \/ Peers(Receiver)
  \/ \E u \in BOOLEAN, r \in Suffixes :
        Broadcast(Sender, u, [i \in 1..Cardinality(Procs) |-> r])

SpecCast == InitCast /\ [][NextCast]_vars

\* Sends by the lowest process to agents that are registered, dead or
\* absent, all within one clock reading.
NextSend ==
  \/ \E p \in Procs \cup {Outsider} : Crash(p)
  \/ \E p \in Procs : SessionStart(p, FALSE, TRUE)
  \/ \E p \in Procs : MeshCommand(p, TRUE)
  \/ \E to \in {SeqName(1), SeqName(2), ZedName}, r \in Suffixes :
        Send(Sender, to, FALSE, r)

SpecSend == InitCast /\ [][NextSend]_vars

\* Sends and broadcasts by the lowest process while writes into the inboxes
\* may fail.
NextSendFail ==
  \/ Crash(Receiver)
  \/ \E p \in Procs : SessionStart(p, FALSE, TRUE)
  \/ \E p \in Procs : MeshCommand(p, TRUE)
  \/ \E to \in {SeqName(2), ZedName}, r \in Suffixes :
        Send(Sender, to, FALSE, r)
  \/ \E r \in Suffixes :
        Broadcast(Sender, FALSE, [i \in 1..Cardinality(Procs) |-> r])
  \/ \E to \in {SeqName(2), ZedName}, r \in Suffixes, partial \in BOOLEAN :
        SendWriteFails(Sender, to, r, partial)
  \/ \E r \in Suffixes, k \in 1..Cardinality(Procs) :
        BroadcastWriteFails(Sender, FALSE,
                            [i \in 1..Cardinality(Procs) |-> r], k)

SpecSendFail == InitCast /\ [][NextSendFail]_vars

\* The life of the highest process up to its shutdown: tool hooks, the watch
\* and every timer; the lowest process joins and sends.
NextShutdown ==
  \/ \E p \in Procs : SessionStart(p, FALSE, TRUE)
  \/ MeshCommand(Sender, TRUE)
  \/ \E watchOk \in BOOLEAN : MeshCommand(Receiver, watchOk)
  \/ ToolCall(Receiver, "edit", SrcAuthLogin) /\ FewEdits(Receiver)
  \/ ToolResult(Receiver, CommitAndTestCmd, FALSE)
  \/ TurnEnd(Receiver, TRUE, TRUE)
  \/ Send(Sender, SeqName(2), FALSE, CHOOSE r \in Suffixes : TRUE)
  \/ WatchEvent(Receiver)
  \/ DebounceFire(Receiver)
  \/ WatcherError(Receiver)
  \/ RetryFire(Receiver, TRUE)
  \/ RegistryFlushFire(Receiver)
  \/ EditLogFire(Receiver, SrcAuthLogin)
  \/ \E t \in WindowTimers : WindowFire(Receiver, t)
  \/ Shutdown(Receiver)

SpecShutdown == Init /\ [][NextShutdown]_vars

\* Reservations of the highest process up to its shutdown; the lowest
\* process joins and leaves too.
NextLeave ==
  \/ Tick
  \/ \E p \in Procs : SessionStart(p, FALSE, TRUE)
  \/ \E p \in Procs : MeshCommand(p, TRUE)
  \/ \E pattern \in {SrcAuthDir, SrcAuthLogin} :
        Reserve(Receiver, pattern, "refactor")
  \/ Release(Receiver, SrcAuthDir)
  \/ \E p \in Procs : Shutdown(p)

SpecLeave == Init /\ [][NextLeave]_vars

\* The inbox watch of the highest process: setups that fail or succeed,
\* watch errors, retries, recovery at turn_end, renames.
NextWatch ==
  \/ Tick
  \/ \E p \in Procs : SessionStart(p, FALSE, TRUE)
  \/ MeshCommand(Sender, TRUE)
  \/ \E watchOk \in BOOLEAN : MeshCommand(Receiver, watchOk)
  \/ WatcherError(Receiver)
  \/ \E watchOk \in BOOLEAN : RetryFire(Receiver, watchOk)
  \/ \E watchOk \in BOOLEAN : TurnEnd(Receiver, watchOk, FALSE)
  \/ \E n \in {ZedName, SeqName(1)}, watchOk \in BOOLEAN :
        Rename(Receiver, n, watchOk)

SpecWatch == Init /\ [][NextWatch]_vars

\* The watch, its failures and retries, messages that arrive while no watch
\* is open, and the session events that recover the watch.
NextRecover ==
  \/ \E p \in Procs : SessionStart(p, FALSE, TRUE)
  \/ MeshCommand(Sender, TRUE)
  \/ \E watchOk \in BOOLEAN : MeshCommand(Receiver, watchOk)
  \/ \E r \in Suffixes : Send(Sender, SeqName(2), FALSE, r)
  \/ WatcherError(Receiver)
  \/ \E watchOk \in BOOLEAN : RetryFire(Receiver, watchOk)
  \/ \E watchOk \in BOOLEAN : SessionSwitch(Receiver, watchOk)
  \/ Shutdown(Receiver)

SpecRecover == Init /\ [][NextRecover]_vars

\* --- the cleanup of a stale record, one filesystem access per step --------

\* validateRecipient up to its liveness check, for a record that parses and
\* whose process is dead: the unlink is still to come.
ValidateRead(p, to) ==
  /\ Ready(p)
  /\ state[p].registered
  /\ to # state[p].agentName
  /\ to \in DOMAIN registry
  /\ Parses(registry[to])
  /\ ~isProcessAlive(registry[to].pid)
  /\ Commit([World EXCEPT !.call[p] = [pc |-> "unlink", name |-> to]])
  /\ ev' = [op |-> "validate_read", p |-> p, to |-> to,
            pid |-> registry[to].pid]
  /\ UNCHANGED <<now, alive, envName, config, phase, nextId>>

\* fs.unlinkSync(regPath) of validateRecipient and its return.
ValidateUnlink(p) ==
  /\ p \in alive
  /\ At(World, p, "unlink")
  /\ LET name == call[p].name
         found == name \in DOMAIN registry
     IN /\ Commit([World EXCEPT
                     !.registry = IF found THEN Del(@, name) ELSE @,
                     !.call[p] = Idle])
        /\ ev' = [op |-> "unlink", p |-> p, to |-> name,
                  result |-> "not_active",
                  removed |-> IF found /\ Parses(registry[name])
                              THEN registry[name].pid ELSE NoPid]
  /\ UNCHANGED <<now, alive, envName, config, phase, nextId>>

\* A mesh whose agent "zed" may die, a sender that finds its record stale,
\* and an agent that takes the name over.
NextStale ==
  \/ Crash(Outsider)
  \/ \E p \in Procs : SessionStart(p, FALSE, TRUE)
  \/ \E p \in Procs : MeshCommand(p, TRUE)
  \/ Rename(Sender, ZedName, TRUE)
  \/ Peers(Sender)
  \/ ValidateRead(Receiver, ZedName)
  \/ ValidateUnlink(Receiver)

SpecStale == InitCast /\ [][NextStale]_vars

\* --- the feed file on its own: writers, readers and damaged lines ---------

\* The lines written so far, in file order: the event of a line appendEvent
\* wrote, or a line that does not parse.
FeedLines == IF "lines" \in DOMAIN ev THEN ev.lines ELSE <<>>
FeedPruned == IF "pruned" \in DOMAIN ev THEN ev.pruned ELSE FALSE

\* Events callers pass to appendEvent: with and without the optional fields,
\* and with characters JSON escapes.
FeedInputs ==
  LET join == FeedEvent(toISOString(DateNow), SeqName(1), "join", NoTarget)
      message == FeedEvent(toISOString(DateNow), SeqName(2), "message",
                           SrcAuthDir)
  IN {join,
      Put(message, KeyPreview, <<"h", " ", Quote, Backslash, NL, "}">>),
      Put(join, KeyTarget, NoText)}

\* The text a writer that stops half way leaves behind.
Truncated(text) == {SubSeq(text, 1, k) : k \in {0, Len(text) - 1}}

FeedUnchanged ==
  UNCHANGED <<now, alive, envName, config, phase, registry, inbox, state,
              agentsCache, tracking, guard, timeouts, delivered, notify, call,
                 nextId>>

FeedAppend(event) ==
  /\ LineCount(feed) < MaxFeed
  /\ feed' = appendEvent(feed, event)
  /\ ev' = [op |-> "append", pruned |-> FeedPruned,
            lines |-> Append(FeedLines, [ok |-> TRUE, event |-> event])]
  /\ FeedUnchanged

\* A line that is not a JSON document reaches the file.
FeedCorrupt(text) ==
  /\ LineCount(feed) < MaxFeed
  /\ feed' = feed \o text \o <<NL>>
  /\ ev' = [op |-> "corrupt", pruned |-> FeedPruned,
            lines |-> Append(FeedLines, [ok |-> FALSE, text |-> text])]
  /\ FeedUnchanged

FeedRead(limit, readable) ==
  /\ ev' = [op |-> "read", pruned |-> FeedPruned, lines |-> FeedLines,
            limit |-> limit, readable |-> readable,
            got |-> readEvents(feed, readable, limit)]
  /\ UNCHANGED feed
  /\ FeedUnchanged

\* The lines pruneFeed counts: the file without its blank lines at either
\* end, which trim removes.
RECURSIVE TrimBlank(_)
TrimBlank(lines) ==
  LET Blank(l) == ~l.ok /\ l.text = NoText
  IN IF lines = <<>> THEN lines
     ELSE IF Blank(Head(lines)) THEN TrimBlank(Tail(lines))
     ELSE IF Blank(lines[Len(lines)])
          THEN TrimBlank(SubSeq(lines, 1, Len(lines) - 1))
     ELSE lines

FeedPrune(maxEvents) ==
  /\ feed' = pruneFeed(World, maxEvents).feed
  /\ LET rewrite == Len(TrimBlank(FeedLines)) > maxEvents
     IN ev' = [op |-> "prune", pruned |-> FeedPruned \/ rewrite,
               max |-> maxEvents,
               lines |-> IF rewrite
                         THEN Slice(TrimBlank(FeedLines), 0 - maxEvents)
                         ELSE FeedLines]
  /\ FeedUnchanged

NextFeed ==
  \/ \E event \in FeedInputs : FeedAppend(event)
  \/ \E text \in Truncated(JsonStringify(CHOOSE e \in FeedInputs : TRUE)) :
        FeedCorrupt(text)
  \/ \E limit \in 0..(MaxFeed + 1) : FeedRead(limit, TRUE)
  \/ FeedRead(1, FALSE)
  \/ \E maxEvents \in 0..2 : FeedPrune(maxEvents)

SpecFeed == Init /\ [][NextFeed]_vars

\* --- pruneFeed of one process against appendEvent of another --------------

\* pruneFeed writes: the trimmed content it read has more than maxEvents
\* lines.
pruneWrites(content, maxEvents) ==
  /\ Trim(content) # <<>>
  /\ Len(Split(Trim(content))) > maxEvents

PruneUnchanged ==
  UNCHANGED <<now, alive, envName, config, phase, registry, inbox, state,
              agentsCache, tracking, guard, timeouts, delivered, notify,
              nextId>>

\* fs.readFileSync of pruneFeed: the content and the lines it holds.
PruneRead(p, maxEvents) ==
  /\ call[p] = Idle
  /\ call' = [call EXCEPT ![p] = [pc |-> "prune", max |-> maxEvents,
                                  content |-> feed, lines |-> FeedLines]]
  /\ ev' = [op |-> "prune_read", pruned |-> FeedPruned, lines |-> FeedLines]
  /\ UNCHANGED feed
  /\ PruneUnchanged

\* The rest of pruneFeed: fs.writeFileSync of the last lines of the content
\* read, or the return without a write.
PruneWrite(p) ==
  /\ call[p].pc = "prune"
  /\ LET c == call[p]
         rewrite == pruneWrites(c.content, c.max)
         since == SubSeq(FeedLines, Len(c.lines) + 1, Len(FeedLines))
     IN /\ feed' = IF rewrite
                   THEN pruneFeed([feed |-> c.content], c.max).feed
                   ELSE feed
        /\ ev' = [op |-> "prune_write", pruned |-> FeedPruned \/ rewrite,
                  max |-> c.max, since |-> since, rewrite |-> rewrite,
                  lines |-> IF rewrite
                            THEN Slice(TrimBlank(c.lines), 0 - c.max)
                            ELSE FeedLines]
  /\ call' = [call EXCEPT ![p] = Idle]
  /\ PruneUnchanged

\* appendEvent of any process; the history of lines follows the file.
PruneAppend(event) ==
  /\ LineCount(feed) < MaxFeed
  /\ feed' = appendEvent(feed, event)
  /\ ev' = [op |-> "append", pruned |-> FeedPruned,
            lines |-> Append(FeedLines, [ok |-> TRUE, event |-> event])]
  /\ UNCHANGED call
  /\ PruneUnchanged

NextPrune ==
  \/ \E event \in FeedInputs : PruneAppend(event)
  \/ \E maxEvents \in 1..2 : PruneRead(Receiver, maxEvents)
  \/ PruneWrite(Receiver)

SpecPrune == Init /\ [][NextPrune]_vars

\* --- computeStatus on its own ---------------------------------------------

\* Elapsed times since lastActivityAt, in ms, around every threshold; a
\* negative one is a timestamp ahead of the clock.
ElapsedMs ==
  {0 - 1000, 0, 10000, 29999, 30000, 200000, 299999, 300000, 899999, 900000,
   1200000, 3700000}

\* config.stuckThreshold * 1000
ThresholdsMs == {60000, 900000, 1800000}

\* Texts that are no timestamp.
BadTimestamps == {<<>>, <<"x">>}

\* computeStatus for an agent whose last activity was `elapsed` ago.
ComputeStatus(elapsed, hasReservation, thresholdMs) ==
  /\ ev' = [op |-> "status", elapsed |-> Num(elapsed),
            hasReservation |-> hasReservation, thresholdMs |-> thresholdMs,
            result |-> computeStatus(toISOString(DateNow - elapsed),
                                     hasReservation, thresholdMs)]
  /\ UNCHANGED feed
  /\ FeedUnchanged

\* computeStatus for a record whose timestamp does not parse.
ComputeStatusBad(lastActivityAt, hasReservation, thresholdMs) ==
  /\ ev' = [op |-> "status", elapsed |-> NaN,
            hasReservation |-> hasReservation, thresholdMs |-> thresholdMs,
            result |-> computeStatus(lastActivityAt, hasReservation,
                                     thresholdMs)]
  /\ UNCHANGED feed
  /\ FeedUnchanged

NextStatus ==
  \/ Tick
  \/ \E e \in ElapsedMs, r \in BOOLEAN, th \in ThresholdsMs :
        ComputeStatus(e, r, th)
  \/ \E t \in BadTimestamps, r \in BOOLEAN, th \in ThresholdsMs :
        ComputeStatusBad(t, r, th)

SpecStatus == Init /\ [][NextStatus]_vars

\* --- pathMatchesReservation on its own ------------------------------------

PathHashTs ==
  <<"s", "r", "c", "/", "a", "u", "t", "h", "/", "u", "t", "i", "l", "s",
  "/", "h", "a", "s", "h", ".", "t", "s">>
PathAuth ==
  <<"s", "r", "c", "/", "a", "u", "t", "h">>
PathAuthorization ==
  <<"s", "r", "c", "/", "a", "u", "t", "h", "o", "r", "i", "z", "a", "t",
  "i", "o", "n", "/", "l", "o", "g", "i", "n", ".", "t", "s">>
PathPackage ==
  <<"p", "a", "c", "k", "a", "g", "e", ".", "j", "s", "o", "n">>
PathPackageLock ==
  <<"p", "a", "c", "k", "a", "g", "e", "-", "l", "o", "c", "k", ".", "j",
  "s", "o", "n">>
PathDotLogin ==
  <<".", "/", "s", "r", "c", "/", "a", "u", "t", "h", "/", "l", "o", "g",
  "i", "n", ".", "t", "s">>
PathUpLogin ==
  <<"s", "r", "c", "/", ".", ".", "/", "s", "r", "c", "/", "a", "u", "t",
  "h", "/", "l", "o", "g", "i", "n", ".", "t", "s">>
PathSignup ==
  <<"s", "r", "c", "/", "a", "u", "t", "h", "/", "s", "i", "g", "n", "u",
  "p", ".", "t", "s">>
PatDotAuthDir ==
  <<".", "/", "s", "r", "c", "/", "a", "u", "t", "h", "/">>

\* File paths a tool call may carry.
MatchPaths ==
  {SrcAuthLogin, <<"s", "r", "c">>, PathHashTs, PathAuth, SrcAuthDir,
   PathAuthorization, PathPackage, PathPackageLock, PathDotLogin,
   PathUpLogin, PathSignup, NoText}

\* Patterns a reservation may hold: directories and files.
MatchPatterns ==
  {SrcAuthDir, PatDotAuthDir, PathAuth, SrcAuthLogin, PathPackage,
   PathDotLogin, PathAuthorization, <<"/">>, <<"s", "r", "c", "/">>}

\* getConflicts' test of one path against one reservation.
Match(filePath, pattern) ==
  /\ ev' = [op |-> "match", filePath |-> filePath, pattern |-> pattern,
            result |-> pathMatchesReservation(filePath, pattern)]
  /\ UNCHANGED feed
  /\ FeedUnchanged

NextMatch == \E filePath \in MatchPaths, pattern \in MatchPatterns :
               Match(filePath, pattern)

SpecMatch == Init /\ [][NextMatch]_vars

\* ------------------------------------------------------------------------
\* Auto status: tool notifications in a process whose extension was loaded
\* some time ago and whose rolling windows hold earlier activity
\* ------------------------------------------------------------------------

\* What the windows of the tool-running process hold at the start: nothing,
\* or counts one below the thresholds with or without a recent commit, or
\* edits alone.
AutoWindows ==
  {[commit |-> FALSE, tests |-> 0, edits |-> 0],
   [commit |-> FALSE, tests |-> DEBUGGING_RUNS - 1,
    edits |-> ON_FIRE_EDITS - 1],
   [commit |-> TRUE, tests |-> DEBUGGING_RUNS - 1,
    edits |-> ON_FIRE_EDITS - 1],
   [commit |-> FALSE, tests |-> 0, edits |-> ON_FIRE_EDITS - 1]}

StatusWip == <<" ", "w", "i", "p", " ">>
StatusBlank == <<" ", " ">>

InitAuto ==
  /\ now = FRESH_MS - TickMs
  /\ envName = [p \in Procs |-> NoName]
  /\ config \in [autoStatus : BOOLEAN]
  /\ alive = Procs \cup {Outsider}
  /\ phase = [p \in Procs |-> "new"]
  /\ registry = Put(EmptyMap, ZedName,
                    [ok |-> TRUE, name |-> ZedName, pid |-> Outsider,
                     res |-> <<[pattern |-> SrcAuthorization,
                                reason |-> "refactor"]>>])
  /\ inbox = Put(EmptyMap, ZedName, EmptyMap)
  /\ feed = <<>>
  /\ state = [p \in Procs |-> InitialMeshState]
  /\ agentsCache = [p \in Procs |-> NoCache]
  /\ \E a \in AutoWindows :
       LET open == [recentCommitTimer |-> a.commit,
                    recentTestTimer |-> a.tests > 0,
                    recentEditTimer |-> a.edits > 0]
           handle == [timer \in DOMAIN open |->
                        IF open[timer] THEN RECENT_WINDOW_MS ELSE NoTimer]
       IN /\ tracking =
               [p \in Procs |->
                  IF p = Receiver
                  THEN [InitialTracking EXCEPT
                          !.recentCommit = a.commit,
                          !.recentCommitTimer = handle.recentCommitTimer,
                          !.recentTestRuns = a.tests,
                          !.recentTestTimer = handle.recentTestTimer,
                          !.recentEdits = a.edits,
                          !.recentEditTimer = handle.recentEditTimer]
                  ELSE InitialTracking]
          /\ timeouts =
               [p \in Procs |->
                  IF p = Receiver
                  THEN {[id |-> timer, key |-> NoKey, due |-> handle[timer]] :
                          timer \in {t \in DOMAIN open : open[t]}}
                  ELSE {}]
  /\ guard = [p \in Procs |-> InitialGuard]
  /\ delivered = [p \in Procs |-> <<>>]
  /\ notify = [p \in Procs |-> FALSE]
  /\ call = [p \in Procs |-> Idle]
  /\ nextId = 0
  /\ ev = [op |-> "init"]

\* The clock advances by one tick, to the end of the first FRESH_MS.
TickAuto ==
  /\ now = FRESH_MS - TickMs
  /\ now' = now + TickMs
  /\ ev' = NoEvent
  /\ UNCHANGED <<alive, envName, config, phase, registry, inbox, feed, state,
                 agentsCache, tracking, guard, timeouts, delivered, notify, call,
                 nextId>>

\* The step starts a window of at most MaxEdits edits or completes one of
\* ON_FIRE_EDITS.
EditsNearThreshold(p) ==
  \/ tracking'[p].recentEdits <= MaxEdits
  \/ tracking'[p].recentEdits = ON_FIRE_EDITS

NextAuto ==
  \/ TickAuto
  \/ SessionStart(Receiver, FALSE, TRUE)
  \/ MeshCommand(Receiver, TRUE)
  \/ \E f \in {SrcAuthLogin, SrcAuthorization} :
        ToolCall(Receiver, "edit", f) /\ EditsNearThreshold(Receiver)
  \/ ToolCall(Receiver, "read", SrcAuthLogin)
  \/ ToolCallBash(Receiver, TestCmd)
  \/ \E c \in {GitCommitCmd, TestCmd} : ToolResult(Receiver, c, FALSE)
  \/ \E m \in {StatusBlank, StatusWip} : SetStatus(Receiver, m)

SpecAuto == InitAuto /\ [][NextAuto]_vars

\* The rolling windows under a clock that tells events less than
\* RECENT_WINDOW_MS apart; the event loop runs a timeout no earlier than it
\* is due, the windows count at most MaxRuns events, and the agent joins
\* before the clock first advances.
WindowTickMs == 30000
MaxWindowTicks == 3
MaxRuns == 2

TickWindow ==
  /\ now < MaxWindowTicks * WindowTickMs
  /\ now' = now + WindowTickMs
  /\ ev' = NoEvent
  /\ UNCHANGED <<alive, envName, config, phase, registry, inbox, feed, state,
                 agentsCache, tracking, guard, timeouts, delivered, notify,
                 call, nextId>>

FewRuns(p) ==
  tracking'[p].recentEdits + tracking'[p].recentTestRuns <= MaxRuns

NextWindow ==
  \/ TickWindow
  \/ SessionStart(Receiver, FALSE, TRUE) /\ now = 0
  \/ MeshCommand(Receiver, TRUE) /\ now = 0
  \/ ToolCall(Receiver, "edit", SrcAuthLogin) /\ FewRuns(Receiver)
  \/ \E c \in {GitCommitCmd, TestCmd} :
        ToolResult(Receiver, c, FALSE) /\ FewRuns(Receiver)
  \/ \E t \in WindowTimers : WindowFire(Receiver, t) /\ ev'.due <= now
  \/ Shutdown(Receiver)

SpecWindow == Init /\ [][NextWindow]_vars

\* The edit log under a clock that tells calls less than EDIT_DEBOUNCE_MS
\* apart, with the same event loop and the same limit on calls.
EditTickMs == 2500
MaxEditTicks == 3

TickEdit ==
  /\ now < MaxEditTicks * EditTickMs
  /\ now' = now + EditTickMs
  /\ ev' = NoEvent
  /\ UNCHANGED <<alive, envName, config, phase, registry, inbox, feed, state,
                 agentsCache, tracking, guard, timeouts, delivered, notify,
                 call, nextId>>

EditPaths == {SrcAuthLogin, SrcAuthorization}

NextEdit ==
  \/ TickEdit
  \/ SessionStart(Receiver, FALSE, TRUE) /\ now = 0
  \/ MeshCommand(Receiver, TRUE) /\ now = 0
  \/ \E f \in EditPaths, tool \in {"edit", "write"} :
        ToolCall(Receiver, tool, f) /\ FewRuns(Receiver)
  \/ \E f \in EditPaths : EditLogFire(Receiver, f) /\ ev'.due <= now
  \/ Shutdown(Receiver)

SpecEdit == Init /\ [][NextEdit]_vars

\* The list of modified files: results of edits and writes on the first two
\* paths, in any order and any number, and on further paths, each a new one
\* when its result arrives, up to MaxPaths paths.
MaxPaths == 22

FilePath(i) == <<"f">> \o ToDigits(i)

\* The path is one of the first two, or the one after the last path
\* recorded so far.
NextPath(p, i) ==
  LET recorded == {state[p].filesModified[k] :
                     k \in 1..Len(state[p].filesModified)}
  IN \/ i <= 2
     \/ /\ FilePath(i - 1) \in recorded
        /\ \A k \in i..MaxPaths : FilePath(k) \notin recorded

NextFiles ==
  \/ SessionStart(Receiver, TRUE, TRUE)
  \/ \E i \in 1..MaxPaths, isError \in BOOLEAN :
        NextPath(Receiver, i)
          /\ ToolResultFile(Receiver, IF i = 1 THEN "write" ELSE "edit",
                            FilePath(i), isError)
  \/ ToolResult(Receiver, OtherCmd, FALSE)

SpecFiles == Init /\ [][NextFiles]_vars

\* ------------------------------------------------------------------------
\* Reservation lists: one agent reserves and releases
\* ------------------------------------------------------------------------

PatBlank == <<" ", " ">>

\* feed.jsonl is removed from the mesh directory.
FeedRemoved ==
  /\ feed # <<>>
  /\ feed' = <<>>
  /\ ev' = [op |-> "feed_removed"]
  /\ FeedUnchanged

NextReserve ==
  \/ SessionStart(Receiver, FALSE, TRUE)
  \/ MeshCommand(Receiver, TRUE)
  \/ \E pattern \in {SrcAuthDir, SrcAuthLogin, PatBlank, NoText},
        reason \in {"refactor", "fix"} : Reserve(Receiver, pattern, reason)
  \/ \E pattern \in {SrcAuthDir, SrcAuthLogin} : Release(Receiver, pattern)
  \/ ReleaseAll(Receiver)
  \/ FeedRemoved

SpecReserve == Init /\ [][NextReserve]_vars

\* ------------------------------------------------------------------------
\* Registry scans while the record of another process is being rewritten
\* ------------------------------------------------------------------------

\* A reader sees zed.json partly written: the content does not parse.
TornWrite ==
  /\ ZedName \in DOMAIN registry
  /\ Parses(registry[ZedName])
  /\ registry' = Put(registry, ZedName, Malformed)
  /\ ev' = [op |-> "torn_write"]
  /\ UNCHANGED <<now, alive, envName, config, phase, inbox, feed, state,
                 agentsCache, tracking, guard, timeouts, delivered, notify, call,
                 nextId>>

\* The write of zed.json completes.
WriteCompleted ==
  /\ ZedName \in DOMAIN registry
  /\ ~Parses(registry[ZedName])
  /\ registry' = Put(registry, ZedName,
                     [ok |-> TRUE, name |-> ZedName, pid |-> Outsider,
                      res |-> <<>>])
  /\ ev' = [op |-> "write_completed"]
  /\ UNCHANGED <<now, alive, envName, config, phase, inbox, feed, state,
                 agentsCache, tracking, guard, timeouts, delivered, notify, call,
                 nextId>>

NextScan ==
  \/ Tick
  \/ \E p \in Procs : SessionStart(p, FALSE, TRUE)
  \/ \E p \in Procs : MeshCommand(p, TRUE)
  \/ \E p \in Procs : Peers(p)
  \/ TornWrite
  \/ WriteCompleted

SpecScan == InitCast /\ [][NextScan]_vars

\* ------------------------------------------------------------------------
\* Inbox scans during which the host asks for further scans
\* ------------------------------------------------------------------------

\* Calls of processInbox the host makes during one deliverFn, at most.
MaxRequests == 2

NextGuard ==
  \/ \E p \in Procs : SessionStart(p, FALSE, TRUE)
  \/ \E p \in Procs : MeshCommand(p, TRUE)
  \/ \E r \in Suffixes : Send(Sender, SeqName(2), FALSE, r)
  \/ \E r \in Suffixes : SendTruncated(Sender, SeqName(2), r)
  \/ WatchEvent(Receiver)
  \/ \E listOk \in BOOLEAN : ScanBegin(Receiver, listOk)
  \/ \E n \in 0..MaxRequests, throws \in BOOLEAN :
        ScanDeliver(Receiver, n, throws)
  \/ \E listOk \in BOOLEAN : ScanEnd(Receiver, listOk)
  \/ TurnEnd(Receiver, TRUE, FALSE)

SpecGuard == Init /\ [][NextGuard]_vars

\* The inbox watch under a clock fine enough to tell notifications less than
\* WATCHER_DEBOUNCE_MS apart; the event loop runs a timeout no earlier than
\* it is due.
DebounceTickMs == 25
MaxDebounceTicks == 4

TickDebounce ==
  /\ now < MaxDebounceTicks * DebounceTickMs
  /\ now' = now + DebounceTickMs
  /\ ev' = NoEvent
  /\ UNCHANGED <<alive, envName, config, phase, registry, inbox, feed, state,
                 agentsCache, tracking, guard, timeouts, delivered, notify,
                 call, nextId>>

NextDebounce ==
  \/ TickDebounce
  \/ \E p \in Procs : SessionStart(p, FALSE, TRUE)
  \/ \E p \in Procs : MeshCommand(p, TRUE)
  \/ \E r \in Suffixes : Send(Sender, SeqName(2), FALSE, r)
  \/ WatchEvent(Receiver)
  \/ DebounceFire(Receiver) /\ ev'.due <= now

SpecDebounce == Init /\ [][NextDebounce]_vars

\* --- the whole life of the watch ------------------------------------------

\* Setups that fail or succeed, notifications and their debounce, watch
\* errors, retries, recovery, renames and the shutdown of the session.
NextWatchState ==
  \/ \E p \in Procs : SessionStart(p, FALSE, TRUE)
  \/ MeshCommand(Sender, TRUE)
  \/ \E watchOk \in BOOLEAN : MeshCommand(Receiver, watchOk)
  \/ \E r \in Suffixes : Send(Sender, SeqName(2), FALSE, r)
  \/ WatchEvent(Receiver)
  \/ DebounceFire(Receiver)
  \/ WatcherError(Receiver)
  \/ \E watchOk \in BOOLEAN : RetryFire(Receiver, watchOk)
  \/ \E watchOk \in BOOLEAN : SessionSwitch(Receiver, watchOk)
  \/ \E watchOk \in BOOLEAN : Rename(Receiver, ZedName, watchOk)
  \/ Shutdown(Receiver)

SpecWatchState == Init /\ [][NextWatchState]_vars

\* ------------------------------------------------------------------------
\* Properties
\* ------------------------------------------------------------------------

\* Names of the registry records of live agents other than p.
LivePeers(p) ==
  {n \in DOMAIN registry :
     /\ Parses(registry[n])
     /\ isProcessAlive(registry[n].pid)
     /\ registry[n].name # state[p].agentName}

HoldsMatching(n, path) ==
  \E i \in 1..Len(registry[n].res) :
     pathMatchesReservation(path, registry[n].res[i].pattern)

\* The last step was the tool_call hook of a registered agent on edit/write.
GateRan ==
  /\ ev.op = "tool_call"
  /\ ev.tool \in {"edit", "write"}
  /\ state[ev.p].registered

\* C1: whenever the tool_call hook of a registered agent runs for edit or
\* write on a path and the registry record of another live agent holds a
\* reservation matching the path, the hook returns block.
C1_HardGate ==
  (GateRan /\ \E n \in LivePeers(ev.p) : HoldsMatching(n, ev.path))
    => ev.block

\* C6: a conflict check on src/auth/login.ts returns exactly the one conflict
\* naming the agent whose record holds the reservation "src/auth/", with its
\* pattern and reason, and returns the empty list once no other agent's
\* record holds a matching reservation.
C6_ReserveRelease ==
  (GateRan /\ ev.path = SrcAuthLogin) =>
    LET holders == {n \in LivePeers(ev.p) : HoldsMatching(n, SrcAuthLogin)}
    IN /\ holders = {} => ev.conflicts = <<>>
       /\ \A n \in holders :
            holders = {n} =>
              ev.conflicts = <<[agent |-> n, pattern |-> SrcAuthDir,
                                reason |-> registry[n].res[1].reason]>>

\* C8: after one call of getActiveAgents no registry record of a dead
\* process is left and no agent of a dead process is in the list returned.
C8_LazyCleanup ==
  ev.op = "mesh_peers" =>
    /\ \A n \in DOMAIN registry :
         Parses(registry[n]) => isProcessAlive(registry[n].pid)
    /\ \A i \in 1..Len(ev.agents) : isProcessAlive(ev.agents[i].pid)

\* The records of a list that carry the name given.
Named(agents, name) == {i \in 1..Len(agents) : agents[i].name = name}

\* C7: the list getAllAgents returns to a registered agent holds exactly one
\* record with the agent's name, and that record carries the caller's pid;
\* when register returns true the registry record under the agent's name
\* carries the caller's pid.
C7_RegisterVisible ==
  /\ ev.op = "mesh_peers" =>
       /\ Cardinality(Named(ev.agents, state[ev.p].agentName)) = 1
       /\ \A i \in Named(ev.agents, state[ev.p].agentName) :
            ev.agents[i].pid = ev.p
  /\ (ev.op \in {"mesh", "session_start"} /\ ev.result = "true") =>
       /\ state[ev.p].agentName \in DOMAIN registry
       /\ Parses(registry[state[ev.p].agentName])
       /\ registry[state[ev.p].agentName].pid = ev.p

\* A registered agent with a name from PI_AGENT_NAME lists itself and a peer.
C7_Witness ==
  /\ ev.op = "mesh_peers"
  /\ state[ev.p].agentName = ZedName
  /\ Len(ev.agents) = 2
  /\ registry[ZedName].pid = ev.p

\* The step is renameAgent called by p with the new name n, and the registry
\* holds a readable record of another process under n.
RenameOnto(p, n) ==
  /\ ev'.op = "rename" /\ ev'.p = p /\ ev'.name = n
  /\ n # state[p].agentName
  /\ n \in DOMAIN registry
  /\ Parses(registry[n])
  /\ registry[n].pid # p

\* C9: renaming onto the record of a dead process returns success and the
\* record under the new name then carries the caller's pid; renaming onto the
\* record of a live different process returns name_taken and leaves
\* state.agentName, sessionStartedAt, the old registry record and the old
\* inbox directory as they were.
C9_RenameCollision ==
  [][\A p \in Procs, n \in RenameTargets :
       RenameOnto(p, n) =>
         IF isProcessAlive(registry[n].pid)
         THEN /\ ev'.result = "name_taken"
              /\ state'[p].agentName = state[p].agentName
              /\ state'[p].sessionStartedAt = state[p].sessionStartedAt
              /\ registry'[state[p].agentName] = registry[state[p].agentName]
              /\ registry'[n] = registry[n]
              /\ state[p].agentName \in DOMAIN inbox'
         ELSE /\ ev'.result = "success"
              /\ state'[p].agentName = n
              /\ registry'[n].pid = p
              /\ registry'[n].name = n]_vars

\* A rename has just overwritten the record of a dead process.
C9_Witness ==
  /\ ev.op = "rename"
  /\ ev.result = "success"
  /\ ev.prior \in Procs \ alive
  /\ registry[ev.name].pid = ev.p

\* How many times the delivery callback was invoked with message id.
RECURSIVE Deliveries(_, _)
Deliveries(id, ps) ==
  IF ps = {} THEN 0
  ELSE LET p == CHOOSE q \in ps : TRUE
       IN Cardinality({i \in 1..Len(delivered[p]) :
                         delivered[p][i].ok /\ delivered[p][i].id = id})
          + Deliveries(id, ps \ {p})

\* C3: the delivery callback is invoked at most once for every message
\* written, it is never invoked with a file that does not parse, and a scan
\* by a registered agent leaves no file, readable or not, in its inbox.
C3_AtMostOnce ==
  /\ \A id \in 1..nextId : Deliveries(id, Procs) <= 1
  /\ \A p \in Procs : \A i \in 1..Len(delivered[p]) :
       Parses(delivered[p][i])
  /\ (ev.op = "scan" /\ state[ev.p].registered) =>
       /\ state[ev.p].agentName \in DOMAIN inbox
       /\ DOMAIN inbox[state[ev.p].agentName] = {}

\* A scan has run after one message was delivered and one truncated file
\* was written, and the truncated file is gone.
C3_Witness ==
  /\ ev.op = "scan"
  /\ nextId = 2
  /\ Len(delivered[ev.p]) = 1
  /\ alive # Procs
  /\ \A d \in DOMAIN inbox : DOMAIN inbox[d] = {}

\* C5: of two messages written to the same inbox, the one whose sendMessage
\* call ran first is delivered first.
C5_ArrivalOrder ==
  \A p \in Procs : \A i, j \in 1..Len(delivered[p]) :
    (i < j /\ delivered[p][i].to = delivered[p][j].to)
      => delivered[p][i].id < delivered[p][j].id

\* A readable file in some inbox holds message id.
Pending(id) ==
  \E d \in DOMAIN inbox : \E f \in DOMAIN inbox[d] :
    Parses(inbox[d][f]) /\ inbox[d][f].id = id

\* C4: while every registered agent stays registered, a readable message
\* file in an inbox is eventually taken out of it by a scan.
C4_EventualDelivery ==
  \A id \in 1..MaxMsgs : Pending(id) ~> ~Pending(id)

\* C2: no two live processes are registered under the same agent name.
C2_UniqueNames ==
  \A p, q \in alive :
    (p # q /\ state[p].registered /\ state[q].registered)
      => state[p].agentName # state[q].agentName

\* C10: when renameAgent has returned, with success or with an error, the
\* registry holds under the caller's state.agentName a record that carries
\* the caller's pid.
C10_NeverOrphaned ==
  ev.op = "rename" =>
    /\ state[ev.p].agentName \in DOMAIN registry
    /\ Parses(registry[state[ev.p].agentName])
    /\ registry[state[ev.p].agentName].pid = ev.p
    /\ registry[state[ev.p].agentName].name = state[ev.p].agentName

\* The readable files of inbox/<dir>/.
Undelivered(dir) ==
  IF dir \in DOMAIN inbox
  THEN {f \in DOMAIN inbox[dir] : Parses(inbox[dir][f])}
  ELSE {}

\* C11: when a rename returns success, the inbox directory of the old name
\* no longer exists, and every readable file it held is in the inbox of the
\* new name or has been passed to the renamed agent's delivery callback.
C11_RenameMovesInbox ==
  [][(ev'.op = "rename" /\ ev'.result = "success") =>
       LET p == ev'.p
           old == state[p].agentName
           new == state'[p].agentName
       IN /\ old \notin DOMAIN inbox'
          /\ \A f \in Undelivered(old) :
               \/ /\ new \in DOMAIN inbox'
                  /\ f \in DOMAIN inbox'[new]
               \/ \E i \in 1..Len(delivered'[p]) :
                    delivered'[p][i] = inbox[old][f]]_vars

\* Names of the registry records, other than p's own, holding a reservation
\* that matches path.
OtherHolders(p, path) ==
  {n \in DOMAIN registry :
     /\ Parses(registry[n])
     /\ registry[n].name # state[p].agentName
     /\ HoldsMatching(n, path)}

\* C12: whenever the tool_call hook returns block, the tool is edit or
\* write, the caller is registered, and the registry record of some other
\* agent holds a reservation matching the path.
C12_BlockedOnlyIf ==
  (ev.op = "tool_call" /\ ev.block) =>
    /\ ev.tool \in {"edit", "write"}
    /\ state[ev.p].registered
    /\ OtherHolders(ev.p, ev.path) # {}

\* How many times m occurs in the sequence s.
Occurrences(s, m) == Cardinality({i \in 1..Len(s) : s[i] = m})

\* C13: when a scan of registered agent B finds in B's inbox one readable
\* non-urgent message from A, B's unread counter for A goes up by exactly
\* 1, the message is appended to B's chat history for A, the delivery
\* callback is invoked once with it, and its file is gone from the inbox.
C13_EndToEndSend ==
  [][(ev'.op = "scan" /\ state[ev'.p].registered) =>
       LET b == ev'.p
           dir == state[b].agentName
       IN \A f \in Undelivered(dir) :
            LET m == inbox[dir][f]
                a == m.from
                fromA == {g \in Undelivered(dir) : inbox[dir][g].from = a}
            IN (fromA = {f} /\ ~m.urgent) =>
                 /\ GetOr(state'[b].unreadCounts, a, 0)
                      = GetOr(state[b].unreadCounts, a, 0) + 1
                 /\ GetOr(state'[b].chatHistory, a, <<>>)
                      = Append(GetOr(state[b].chatHistory, a, <<>>), m)
                 /\ Occurrences(delivered'[b], m)
                      = Occurrences(delivered[b], m) + 1
                 /\ dir \in DOMAIN inbox'
                 /\ f \notin DOMAIN inbox'[dir]]_vars

\* A scan has delivered one non-urgent message to an agent that already had
\* one unread message of the same sender.
C13_Witness ==
  /\ ev.op = "scan"
  /\ ev.got = 1
  /\ Len(delivered[ev.p]) = 2
  /\ ~delivered[ev.p][2].urgent
  /\ delivered[ev.p][1].from = delivered[ev.p][2].from
  /\ state[ev.p].unreadCounts[delivered[ev.p][2].from] = 2
  /\ \A d \in DOMAIN inbox : DOMAIN inbox[d] = {}

AtAll == <<"@", "a", "l", "l">>

\* The files of all inboxes, as (directory, file name) pairs.
InboxFiles(ib) ==
  UNION {{<<d, f>> : f \in DOMAIN ib[d]} : d \in DOMAIN ib}

\* C14: a broadcast returns one message per agent getActiveAgents resolves
\* for the sender, in that order and addressed to it, never to the sender
\* itself or to "@all", with ids that differ from each other and from every
\* id drawn before; each message is in its recipient's inbox afterwards,
\* also when the recipient is gone, and no other file is written or taken
\* away; with no
\* agent resolved the list is empty, nothing is written and the result is
\* not an error.
C14_BroadcastFanOut ==
  [][ev'.op = "broadcast" =>
       LET p == ev'.p
           peers == getActiveAgents(World, p).agents
           msgs == ev'.messages
           new == {df \in InboxFiles(inbox') :
                     \/ df \notin InboxFiles(inbox)
                     \/ inbox'[df[1]][df[2]] # inbox[df[1]][df[2]]}
       IN /\ Len(msgs) = Len(peers)
          /\ \A i \in 1..Len(msgs) :
               /\ msgs[i].to = peers[i].name
               /\ msgs[i].to # state[p].agentName
               /\ msgs[i].to # AtAll
               /\ msgs[i].from = state[p].agentName
               /\ msgs[i].id > nextId
               /\ \E df \in new :
                    df[1] = msgs[i].to /\ inbox'[df[1]][df[2]] = msgs[i]
          /\ \A i, j \in 1..Len(msgs) : i # j => msgs[i].id # msgs[j].id
          /\ \A df \in new : \E i \in 1..Len(msgs) :
               inbox'[df[1]][df[2]] = msgs[i]
          /\ InboxFiles(inbox) \subseteq InboxFiles(inbox')
          /\ peers = <<>> => ev'.result = "none"]_vars

\* A broadcast has written two messages, one of them to an agent whose
\* process is dead.
C14_Witness ==
  /\ ev.op = "broadcast"
  /\ Len(ev.messages) = 2
  /\ \E i \in 1..2 :
       \/ ev.messages[i].to \notin DOMAIN registry
       \/ registry[ev.messages[i].to].pid \notin alive
  /\ \A i \in 1..2 : \E f \in DOMAIN inbox[ev.messages[i].to] :
       inbox[ev.messages[i].to][f] = ev.messages[i]

\* A broadcast has found no agent.
C14_WitnessNone ==
  ev.op = "broadcast" /\ ev.messages = <<>>

\* The registry holds a readable record under name whose process is alive.
HasLiveRecord(name) ==
  /\ name \in DOMAIN registry
  /\ Parses(registry[name])
  /\ isProcessAlive(registry[name].pid)

\* The registry holds a readable record under name whose process is dead.
HasDeadRecord(name) ==
  /\ name \in DOMAIN registry
  /\ Parses(registry[name])
  /\ ~isProcessAlive(registry[name].pid)

\* C15: mesh_send accepts a recipient only if the registry holds a readable
\* record under its name whose process is alive; a record of a dead process
\* is deleted by the validation and the result is reported as not found.
C15_ValidateRecipient ==
  [][ev'.op = "mesh_send" =>
       /\ ev'.result = "sent" => HasLiveRecord(ev'.to)
       /\ HasDeadRecord(ev'.to) =>
            /\ ev'.to \notin DOMAIN registry'
            /\ ev'.result = "not_found"]_vars

\* C15, amended: as above, but the result for a record of a dead process is
\* "not_active"; "not_found" is the result when no record exists.
C15_ValidateRecipientAmended ==
  [][ev'.op = "mesh_send" =>
       /\ ev'.result = "sent" => HasLiveRecord(ev'.to)
       /\ HasDeadRecord(ev'.to) =>
            /\ ev'.to \notin DOMAIN registry'
            /\ ev'.result = "not_active"
       /\ ev'.to \notin DOMAIN registry => ev'.result = "not_found"]_vars

\* A send to an agent whose process is dead has been rejected and the
\* agent's record is gone.
C15_Witness ==
  /\ ev.op = "mesh_send"
  /\ ev.result = "not_active"
  /\ ev.to \notin DOMAIN registry

\* Every event of the feed, in file order.
AllEvents(content) == readEvents(content, TRUE, LineCount(content) + 1)

\* C16: of the Feed events the session_shutdown handler of an agent
\* appends, every "release" event comes before the "leave" event.
C16_ReleaseBeforeLeave ==
  [][ev'.op = "shutdown" =>
       LET before == AllEvents(feed)
           after == AllEvents(feed')
           added == SubSeq(after, Len(before) + 1, Len(after))
       IN \A i, j \in 1..Len(added) :
            (added[i][KeyType] = TypeText.release
             /\ added[j][KeyType] = TypeText.leave)
              => i < j]_vars

\* A timer or the inbox watch of process p is pending.
TimerPending(p) ==
  \/ state[p].registryFlushTimer
  \/ timeouts[p] # {}
  \/ state[p].watcherRetryTimer # NoTimer
  \/ state[p].watcher # NoWatch

\* The last step was a timer callback of a process.
TimerRan ==
  \/ ev.op = "timer"
  \/ ev.op = "scan" /\ ev.by = "timer"

\* C17: once the session_shutdown handler of a process has run, the process
\* has no registry-flush, edit-debounce, rolling-window, inbox-debounce or
\* watch-retry timer pending and no inbox watch open, and none of its timer
\* callbacks runs.
C17_NoLeakedTimers ==
  /\ \A p \in Procs : phase[p] = "shutdown" => ~TimerPending(p)
  /\ TimerRan => phase[ev.p] # "shutdown"

\* The shutdown handler has just run in a process that had its
\* registry-flush, edit-debounce, rolling-window and inbox-debounce timers
\* pending and its inbox watch open.
C17_Witness ==
  /\ ev.op = "shutdown"
  /\ ev.had.flush /\ ev.had.edits /\ ev.had.edit
  /\ ev.had.debounce /\ ev.had.watch
  /\ phase[ev.p] = "shutdown"
  /\ ~TimerPending(ev.p)

\* The shutdown handler has just run in a process whose watch-retry timer
\* was pending.
C17_WitnessRetry ==
  /\ ev.op = "shutdown"
  /\ ev.retry

\* The delay of the retry after the n-th consecutive failure, in ms: 1 s,
\* doubled per failure.
BackoffMs == <<1000, 2000, 4000, 8000>>

\* C18: a failed watch setup or a watch error leaves no watch and, up to the
\* fourth consecutive failure, one retry timer whose delay is 1 s doubled
\* per consecutive failure and at most 30 s; with the fifth consecutive
\* failure no retry is pending, and a rename then leaves the watch, the
\* timer and the count as they are; while a watch is established the count
\* of consecutive failures is 0.
C18_RetryBackoff ==
  [][\A p \in Procs :
       LET n == state[p].watcherRetries
           m == state'[p].watcherRetries
           t == state'[p].watcherRetryTimer
       IN /\ (m # n /\ m > 0) =>
               /\ m = n + 1 \/ m = 1
               /\ m <= 5
               /\ state'[p].watcher = NoWatch
               /\ state'[p].watcherDebounceTimer = NoTimer
               /\ IF m < 5 THEN t = BackoffMs[m] /\ t <= 30000
                           ELSE t = NoTimer
          /\ t # NoTimer => m \in 1..4 /\ t = BackoffMs[m]
          /\ (n = 5 /\ ev'.op = "rename" /\ ev'.p = p) =>
               /\ m = 5
               /\ t = NoTimer
               /\ state'[p].watcher = NoWatch
          /\ state'[p].watcher # NoWatch => m = 0]_vars

\* The watch has failed for the fifth time in a row: no retry is pending.
C18_Witness ==
  \E p \in Procs :
    /\ state[p].registered
    /\ state[p].watcherRetries = 5
    /\ state[p].watcherRetryTimer = NoTimer
    /\ ev.op = "timer"
    /\ ev.timer = "watcherRetry"

\* The events appendEvent wrote whose lines are still in the file, in order.
WrittenEvents ==
  LET RECURSIVE Pick(_)
      Pick(lines) ==
        IF lines = <<>> THEN <<>>
        ELSE (IF Head(lines).ok THEN <<Head(lines).event>> ELSE <<>>)
             \o Pick(Tail(lines))
  IN Pick(FeedLines)

\* C19: before any pruning, readEvents with a limit of at least the number
\* of events written returns exactly the events appendEvent wrote, equal in
\* content and in append order.
C19_FeedRoundTrip ==
  (ev.op = "read" /\ ev.readable /\ ~ev.pruned
   /\ ev.limit >= Len(WrittenEvents))
    => ev.got = WrittenEvents

\* Three lines were written, one of them damaged and one holding a quote, a
\* backslash and a line feed, and the read returned the two events.
C19_Witness ==
  /\ ev.op = "read" /\ ev.readable /\ ~ev.pruned
  /\ Len(ev.lines) = 3
  /\ Len(WrittenEvents) = 2
  /\ ev.limit >= 2
  /\ \E i \in 1..2 : /\ KeyPreview \in DOMAIN WrittenEvents[i]
                      /\ \E k \in DOMAIN WrittenEvents[i][KeyPreview] :
                           WrittenEvents[i][KeyPreview][k] = Quote
  /\ ev.got = WrittenEvents

\* The last n elements of a sequence, all of them when it has fewer.
LastN(s, n) == SubSeq(s, (IF Len(s) > n THEN Len(s) - n ELSE 0) + 1, Len(s))

\* C20: readEvents(N) returns the last N parseable records of the feed in
\* append order, all of them when there are fewer and never more than N for
\* any N >= 0; lines that do not parse are skipped, and a feed that is
\* missing or cannot be read gives the empty list.
C20_ReadLastN ==
  ev.op = "read" =>
    /\ Len(ev.got) <= ev.limit
    /\ ev.got = (IF ev.readable THEN LastN(WrittenEvents, ev.limit)
                 ELSE <<>>)

\* C21: mesh_send, to one recipient or as a broadcast, returns a success
\* payload or a typed failure reason and never lets an error escape, also
\* when the write of a message file fails.
C21_SendNeverThrows ==
  ev.op \in {"mesh_send", "broadcast"} => ev.result # "throws"

\* C22: computeStatus is total in the elapsed time e: below 30 s active;
\* from 30 s and below 5 min idle; from 5 min on without a reservation away
\* and never stuck; from 5 min on with a reservation stuck when e is at
\* least the threshold and idle otherwise; NaN or a negative e active.
C22_ComputeStatus ==
  ev.op = "status" =>
    LET e == ev.elapsed
        r == ev.result
    IN /\ r.status \in {"active", "idle", "away", "stuck"}
       /\ IF e.nan THEN r.status = "active"
          ELSE IF e.n < 0 THEN r.status = "active"
          ELSE IF e.n < 30 * 1000 THEN r.status = "active"
          ELSE IF e.n < 5 * 60 * 1000 THEN r.status = "idle"
          ELSE IF ~ev.hasReservation THEN r.status = "away"
          ELSE IF e.n >= ev.thresholdMs THEN r.status = "stuck"
          ELSE r.status = "idle"

\* An agent with a reservation, quiet for 15 min under a 30 min threshold,
\* was computed idle.
C22_Witness ==
  /\ ev.op = "status"
  /\ ~ev.elapsed.nan /\ ev.elapsed.n = 900000
  /\ ev.hasReservation /\ ev.thresholdMs = 1800000
  /\ ev.result.status = "idle"

\* C23: 10 s gives active; 200 s without a reservation gives away with an
\* idleFor value; 20 min with a reservation and a 900 s threshold gives
\* stuck.
C23_Samples ==
  (ev.op = "status" /\ ~ev.elapsed.nan) =>
    /\ ev.elapsed.n = 10 * 1000 => ev.result.status = "active"
    /\ (ev.elapsed.n = 200 * 1000 /\ ~ev.hasReservation) =>
         (ev.result.status = "away" /\ "idleFor" \in DOMAIN ev.result)
    /\ (ev.elapsed.n = 20 * 60 * 1000 /\ ev.hasReservation
        /\ ev.thresholdMs = 900 * 1000) => ev.result.status = "stuck"

\* C23 as the code has it: 200 s without a reservation gives idle with an
\* idleFor value; the other two sample points as stated.
C23_SamplesAmended ==
  (ev.op = "status" /\ ~ev.elapsed.nan) =>
    /\ ev.elapsed.n = 10 * 1000 => ev.result.status = "active"
    /\ (ev.elapsed.n = 200 * 1000 /\ ~ev.hasReservation) =>
         (ev.result.status = "idle" /\ "idleFor" \in DOMAIN ev.result)
    /\ (ev.elapsed.n = 20 * 60 * 1000 /\ ev.hasReservation
        /\ ev.thresholdMs = 900 * 1000) => ev.result.status = "stuck"

\* The 200 s sample point was computed: idle for "3m 20s".
C23_Witness ==
  /\ ev.op = "status"
  /\ ~ev.elapsed.nan /\ ev.elapsed.n = 200 * 1000
  /\ ~ev.hasReservation
  /\ ev.result = [status |-> "idle",
                  idleFor |-> <<"3", "m", " ", "2", "0", "s">>]

\* s begins with the characters of t.
BeginsWith(s, t) ==
  \A i \in 1..Len(t) : i <= Len(s) /\ s[i] = t[i]

StripDotSlash(s) ==
  IF Len(s) >= 2 /\ s[1] = "." /\ s[2] = "/" THEN SubSeq(s, 3, Len(s)) ELSE s

\* C25: a leading "./" on the path or on the pattern is ignored, and "../"
\* segments of the path are resolved before matching.
C25_Normalizes ==
  ev.op = "match" =>
    /\ (StripDotSlash(ev.pattern) = SrcAuthDir
        /\ StripDotSlash(ev.filePath) = SrcAuthLogin) => ev.result
    /\ (ev.pattern = SrcAuthDir /\ ev.filePath = PathUpLogin) => ev.result

\* The status the derivation rule gives process p in a state: the first that
\* applies of its six cases, else none.
DerivedStatus(p) ==
  CASE now - state[p].sessionStartedAt < 30000 -> JustArrived
    [] tracking[p].recentCommit -> JustShipped
    [] tracking[p].recentTestRuns >= 3 -> Debugging
    [] tracking[p].recentEdits >= 8 -> OnFire
    [] BeginsWith(state[p].currentActivity, Reading) -> Exploring
    [] BeginsWith(state[p].currentActivity, Editing) -> DeepInThought
    [] OTHER -> NoStatus

\* The step is a tool_call or tool_result notification in process p.
ToolNotified(p) == ev'.op \in {"tool_call", "tool_result"} /\ ev'.p = p

\* A custom status stays; otherwise the new status is the derived one.
StatusFollowsRule(p) ==
  IF state[p].customStatus
  THEN state'[p].statusMessage = state[p].statusMessage
  ELSE state'[p].statusMessage = DerivedStatus(p)'

AutoStatuses ==
  {JustArrived, JustShipped, Debugging, OnFire, Exploring, DeepInThought}

\* C27: when the autoStatus setting is false, no tool-about-to-run or
\* tool-completed notification sets the agent's statusMessage to an
\* auto-generated value.
C27_AutoStatusOff ==
  [][\A p \in Procs :
       (/\ ToolNotified(p)
        /\ ~config.autoStatus
        /\ state'[p].statusMessage # state[p].statusMessage)
       => state'[p].statusMessage \notin AutoStatuses]_vars

\* The patterns of a reservation list.
PatternsOf(res) == {res[i].pattern : i \in DOMAIN res}

\* No two entries of the list have the same pattern.
NoDuplicatePattern(res) ==
  \A i, j \in DOMAIN res : res[i].pattern = res[j].pattern => i = j

\* The entries of the list for patterns other than the given one.
OthersOf(res, pattern) == {res[i] : i \in {k \in DOMAIN res :
                                             res[k].pattern # pattern}}

\* All events of a feed text, oldest first.
EventsOf(text) == readEvents(text, TRUE, Len(text) + 1)

\* The step appended exactly these (type, target) events of agent name to
\* the feed, in this order.
FeedGained(name, type, targets) ==
  LET old == EventsOf(feed)
      new == EventsOf(feed')
  IN /\ Len(new) = Len(old) + Len(targets)
     /\ SubSeq(new, 1, Len(old)) = old
     /\ \A i \in DOMAIN targets :
          /\ new[Len(old) + i][KeyType] = TypeText[type]
          /\ new[Len(old) + i][KeyAgent] = name
          /\ new[Len(old) + i][KeyTarget] = targets[i]

\* After the step the registry record under the name of p is p's and holds
\* p's reservation list.
ListPersisted(p) ==
  LET name == state'[p].agentName
  IN /\ name \in DOMAIN registry'
     /\ Parses(registry'[name])
     /\ registry'[name].pid = p
     /\ registry'[name].res = state'[p].reservations

\* The step changed neither the list of p, nor the registry, nor the feed.
ListUntouched(p) ==
  /\ state'[p].reservations = state[p].reservations
  /\ registry' = registry
  /\ feed' = feed

ReservationStep(p) ==
  LET list == state[p].reservations
      name == state[p].agentName
  IN CASE ev'.op = "mesh_reserve" /\ Trim(ev'.pattern) # <<>> ->
            /\ Cardinality({i \in DOMAIN state'[p].reservations :
                  state'[p].reservations[i] =
                    [pattern |-> ev'.pattern, reason |-> ev'.reason]}) = 1
            /\ OthersOf(state'[p].reservations, ev'.pattern) =
                 OthersOf(list, ev'.pattern)
            /\ ListPersisted(p)
            /\ FeedGained(name, "reserve", <<ev'.pattern>>)
       [] ev'.op = "mesh_reserve" /\ Trim(ev'.pattern) = <<>> ->
            ListUntouched(p)
       [] ev'.op = "mesh_release" /\ ev'.pattern \in PatternsOf(list) ->
            /\ ev'.pattern \notin PatternsOf(state'[p].reservations)
            /\ OthersOf(state'[p].reservations, ev'.pattern) =
                 OthersOf(list, ev'.pattern)
            /\ ListPersisted(p)
            /\ FeedGained(name, "release", <<ev'.pattern>>)
       [] ev'.op = "mesh_release" /\ ev'.pattern \notin PatternsOf(list) ->
            ListUntouched(p)
       [] ev'.op = "mesh_release_all" ->
            /\ state'[p].reservations = <<>>
            /\ ListPersisted(p)
            /\ FeedGained(name, "release",
                          [i \in DOMAIN list |-> list[i].pattern])
       [] OTHER -> TRUE

\* C28: add with a valid pattern replaces any entry for the same pattern and
\* the list never holds two entries with one pattern; add, remove and
\* removeAll leave the list in the agent's own registry record and append one
\* reserve or release event per affected pattern to the feed; add with an
\* invalid pattern and remove of a pattern not held change neither the list,
\* nor the registry, nor the feed.
C28_ReservationOps ==
  [][\A p \in Procs :
       /\ NoDuplicatePattern(state'[p].reservations)
       /\ (ev'.op \in {"mesh_reserve", "mesh_release", "mesh_release_all"}
           /\ ev'.p = p) => ReservationStep(p)]_vars

\* The agent held two patterns and a release of all has just written their
\* two release events to an empty feed.
C28_Witness ==
  /\ ev.op = "mesh_release_all"
  /\ state[ev.p].reservations = <<>>
  /\ registry[state[ev.p].agentName].res = <<>>
  /\ Len(EventsOf(feed)) = 2
  /\ EventsOf(feed)[1][KeyTarget] # EventsOf(feed)[2][KeyTarget]
  /\ \A i \in 1..2 : EventsOf(feed)[i][KeyType] = TypeText["release"]

\* C29: a call of getActiveAgents leaves every registry record that does not
\* parse in place and out of the list it returns, and returns every
\* well-formed record of a live process.
C29_SkipsMalformed ==
  [][\A p \in Procs :
       (ev'.op = "mesh_peers" /\ ev'.p = p) =>
         \A n \in DOMAIN registry :
           /\ ~Parses(registry[n]) =>
                /\ n \in DOMAIN registry'
                /\ registry'[n] = registry[n]
                /\ \A i \in DOMAIN ev'.agents : ev'.agents[i].name # n
           /\ (Parses(registry[n]) /\ isProcessAlive(registry[n].pid)) =>
                \E i \in DOMAIN ev'.agents : ev'.agents[i] = registry[n]]_vars

\* C30: no call of processInbox that arrives while a scan is in flight scans
\* itself: each is deferred; the calls that arrived during a scan cause one
\* further scan at its end and none when there were none, with nothing left
\* pending; the flag is set while a scan is in flight and clear, with nothing
\* pending, whenever no call is in progress, also after a listing that
\* failed and after a deliverFn that threw.
C30_ReentrancyGuard ==
  /\ ev.op = "scan_deliver" => ev.deferred
  /\ ev.op = "scan_end" =>
       /\ ev.rerun <=> ev.asked > 0
       /\ ~guard[ev.p].pendingProcessArgs
  /\ \A p \in Procs :
       /\ At(World, p, "scan") => guard[p].isProcessingMessages
       /\ call[p] = Idle =>
            /\ ~guard[p].isProcessingMessages
            /\ ~guard[p].pendingProcessArgs

\* The second scan of one call has ended and the call has returned: during
\* the first scan two calls arrived, during the second none.
C30_Witness ==
  /\ ev.op = "scan_end"
  /\ ev.scans = 2
  /\ ~ev.rerun
  /\ call[ev.p] = Idle
  /\ ~guard[ev.p].isProcessingMessages

\* The debounce timeouts of the inbox watch of p the event loop holds.
DebouncePending(p) ==
  PendingTimeouts(World, p, "watcherDebounceTimer", NoKey)

\* C31: at most one inbox debounce timer is pending at any time; after each
\* change notification the one pending timer is due WATCHER_DEBOUNCE_MS
\* after that notification, whatever was pending before, and the scan a
\* timer starts leaves no timer pending: a burst of notifications gets
\* one scan, no earlier than WATCHER_DEBOUNCE_MS after its last one.
C31_WatchDebounce ==
  [][\A p \in Procs :
       /\ Cardinality(DebouncePending(p)) <= 1
       /\ (ev'.op = "watch_event" /\ ev'.p = p) =>
            /\ timeouts'[p] \ timeouts[p] \subseteq
                 {[id |-> "watcherDebounceTimer", key |-> NoKey,
                   due |-> now + WATCHER_DEBOUNCE_MS]}
            /\ {t.due : t \in PendingTimeouts(
                   [timeouts |-> timeouts'], p,
                   "watcherDebounceTimer", NoKey)}
                 = {now + WATCHER_DEBOUNCE_MS}
       /\ (ev'.op = "scan" /\ ev'.by = "timer" /\ ev'.p = p) =>
            /\ ev'.due <= now
            /\ PendingTimeouts([timeouts |-> timeouts'], p,
                               "watcherDebounceTimer", NoKey) = {}
            /\ state'[p].watcherDebounceTimer = NoTimer]_vars

\* A notification arrives less than WATCHER_DEBOUNCE_MS after the one
\* before it, whose timer is still pending.
C31_Witness ==
  /\ ev.op = "watch_event"
  /\ ev.was > now
  /\ ev.was < now + WATCHER_DEBOUNCE_MS
  /\ DebouncePending(ev.p) # {}

\* C32: recoverWatcherIfNeeded, called for a registered agent with no watch
\* and no retry timer pending, restarts from failure count 0 whatever the
\* count was: it scans the inbox, and the watch is open with count 0, or,
\* when fs.watch throws, the first retry is pending with count 1.  With a
\* watch open, a retry timer pending or the agent unregistered it leaves
\* the watch state, the inbox and the delivered messages as they are.
C32_RecoverWatcher ==
  [][\A p \in Procs :
       (ev'.op = "session_switch" /\ ev'.p = p) =>
         LET name == state[p].agentName
             after == state'[p]
         IN IF /\ state[p].registered
               /\ state[p].watcher = NoWatch
               /\ state[p].watcherRetryTimer = NoTimer
            THEN /\ name \in DOMAIN inbox'
                 /\ DOMAIN inbox'[name] = {}
                 /\ Len(delivered'[p]) - Len(delivered[p]) =
                      Cardinality({f \in DOMAIN inbox[name] :
                                     Parses(inbox[name][f])})
                 /\ IF ev'.watchOk
                    THEN /\ after.watcher = name
                         /\ after.watcherRetries = 0
                         /\ after.watcherRetryTimer = NoTimer
                    ELSE /\ after.watcher = NoWatch
                         /\ after.watcherRetries = 1
                         /\ after.watcherRetryTimer = BackoffMs[1]
            ELSE /\ after.watcher = state[p].watcher
                 /\ after.watcherRetries = state[p].watcherRetries
                 /\ after.watcherRetryTimer = state[p].watcherRetryTimer
                 /\ inbox' = inbox
                 /\ delivered' = delivered]_vars

\* The watch is open again after it had been abandoned, and the scan of the
\* restart has delivered a message that arrived meanwhile.
C32_Witness ==
  /\ ev.op = "session_switch"
  /\ ev.watchOk
  /\ state[ev.p].watcher # NoWatch
  /\ ev.was = MAX_WATCHER_RETRIES
  /\ delivered[ev.p] # <<>>

\* The records of live processes the registry holds.
LiveRecords(reg) ==
  {reg[n] : n \in {m \in DOMAIN reg :
                    Parses(reg[m]) /\ isProcessAlive(reg[m].pid)}}

Elements(seq) == {seq[i] : i \in 1..Len(seq)}

\* C33: getActiveAgents answers from the cache exactly when the snapshot is
\* younger than AGENTS_CACHE_TTL_MS, and otherwise rescans the registry and
\* stores the snapshot; a snapshot a process holds was taken under its
\* present identity (it holds the process's own record under its present
\* name if it is registered, and no record of the process otherwise), so no
\* register, unregister or rename of the process came after it; and the
\* returned list holds no record of the calling agent.
C33_PeerListCache ==
  [][\A p \in Procs :
       /\ (ev'.op = "mesh_peers" /\ ev'.p = p) =>
            LET self == state[p].agentName
                peers == Tail(ev'.agents)
            IN /\ \A i \in 1..Len(peers) :
                    peers[i].name # self /\ peers[i].pid # p
               /\ IF CacheFresh(agentsCache[p])
                  THEN /\ agentsCache'[p] = agentsCache[p]
                       /\ registry' = registry
                       /\ peers = ExcludeSelf(agentsCache[p].agents, self)
                  ELSE /\ agentsCache'[p] # NoCache
                       /\ agentsCache'[p].timestamp = now
                       /\ Elements(agentsCache'[p].agents)
                            = LiveRecords(registry)
                       /\ Elements(peers) =
                            {a \in LiveRecords(registry) : a.name # self}
       /\ (call'[p] = Idle /\ agentsCache'[p] # NoCache) =>
            {a.name : a \in {b \in Elements(agentsCache'[p].agents) :
                               b.pid = p}}
              = IF state'[p].registered THEN {state'[p].agentName}
                                        ELSE {}]_vars

\* A call answered from the cache after the caller was renamed: the
\* snapshot holds the caller's record under the new name and a peer's.
C33_Witness ==
  /\ ev.op = "mesh_peers"
  /\ ev.hit
  /\ state[ev.p].agentName = ZedName
  /\ Len(agentsCache[ev.p].agents) = 2
  /\ Len(ev.agents) = 2

\* The text of a feed that holds these lines.
RECURSIVE FeedText(_)
FeedText(lines) ==
  IF lines = <<>> THEN <<>>
  ELSE (IF Head(lines).ok THEN JsonStringify(Head(lines).event)
        ELSE Head(lines).text) \o <<NL>> \o FeedText(Tail(lines))

\* C34: pruneFeed(M) rewrites a feed of more than M lines to exactly its
\* last M lines, in their order, and leaves a feed of M or fewer lines as
\* it is.
C34_PruneFeed ==
  [][ev'.op = "prune" =>
       LET lines == TrimBlank(FeedLines)
       IN IF Len(lines) > ev'.max
          THEN feed' = FeedText(LastN(lines, ev'.max))
          ELSE feed' = feed]_vars

\* C35: an event appended to the feed leaves it only when pruning cuts the
\* oldest lines beyond the retention bound: after a pruneFeed(M), the last
\* M of the events other agents appended between its read and its write
\* are in the feed.
C35_AppendOnly ==
  [][ev'.op = "prune_write" =>
       \A l \in Elements(LastN(ev'.since, ev'.max)) :
         l.event \in Elements(AllEvents(feed'))]_vars

\* The timeouts of a rolling window of p after the step.
WindowPendingAfter(p, timer) ==
  {t.due : t \in PendingTimeouts([timeouts |-> timeouts'], p, timer, NoKey)}

\* The step is a contributing event of the window of `timer` of p.
Contributes(p, timer) ==
  /\ ev'.op \in {"tool_call", "tool_result"}
  /\ ev'.p = p
  /\ state[p].registered
  /\ CASE timer = "recentEditTimer" ->
            /\ ev'.op = "tool_call"
            /\ ev'.tool \in {"edit", "write"}
            /\ ~ev'.block
       [] timer = "recentCommitTimer" ->
            ev'.op = "tool_result" /\ isGitCommit(ev'.command)
       [] timer = "recentTestTimer" ->
            ev'.op = "tool_result" /\ isTestRun(ev'.command)

\* What the window of `timer` counts, the commit flag as 0 or 1.
WindowCount(t, timer) ==
  CASE timer = "recentEditTimer" -> t.recentEdits
    [] timer = "recentTestTimer" -> t.recentTestRuns
    [] timer = "recentCommitTimer" -> IF t.recentCommit THEN 1 ELSE 0

\* C36: at most one timer per rolling window is pending; a contributing
\* event adds to what the window counts, without resetting it, and leaves
\* the window's one timer due RECENT_WINDOW_MS after the event; the count
\* goes down only when that timer runs, which resets it to 0 or false and
\* leaves the other windows alone; and while the session lasts a window
\* that counts something has its timer pending.
C36_RollingWindows ==
  [][\A p \in Procs, timer \in WindowTimers :
       LET before == WindowCount(tracking[p], timer)
           after == WindowCount(tracking'[p], timer)
           fires == /\ ev'.op = "timer" /\ ev'.p = p /\ ev'.timer = timer
       IN /\ Cardinality(WindowPendingAfter(p, timer)) <= 1
          /\ Contributes(p, timer) =>
               /\ after = (IF timer = "recentCommitTimer" THEN 1
                           ELSE before + 1)
               /\ WindowPendingAfter(p, timer) = {now + RECENT_WINDOW_MS}
          /\ fires => /\ ev'.due <= now
                      /\ after = 0
                      /\ WindowPendingAfter(p, timer) = {}
          /\ after < before => fires
          /\ (after # before /\ ~fires) => Contributes(p, timer)
          /\ (phase'[p] # "shutdown" /\ after > 0) =>
               WindowPendingAfter(p, timer) # {}]_vars

\* A second test run inside the window of the first: the window counts
\* two and its timer was moved.
C36_Witness ==
  /\ ev.op = "tool_result"
  /\ isTestRun(ev.command)
  /\ now > 0
  /\ tracking[ev.p].recentTestRuns = 2
  /\ tracking[ev.p].recentTestTimer = now + RECENT_WINDOW_MS

\* The edit-debounce timeouts of a path of p, before and after the step.
EditPending(p, filePath) ==
  {t.due : t \in PendingTimeouts(World, p, "edit", filePath)}
EditPendingAfter(p, filePath) ==
  {t.due : t \in PendingTimeouts([timeouts |-> timeouts'], p, "edit",
                                  filePath)}

\* The "edit" events of the feed for a path.
EditEvents(content, filePath) ==
  SelectSeq(AllEvents(content),
            LAMBDA e : /\ e[KeyType] = TypeText.edit
                       /\ KeyTarget \in DOMAIN e
                       /\ e[KeyTarget] = filePath)

\* C37: for each path at most one edit-debounce timer is pending; an edit
\* or write call on a path leaves that path's one timer due
\* EDIT_DEBOUNCE_MS after the call, appends nothing and leaves the timers
\* of the other paths as they are; the feed gains an "edit" event of a path
\* only when that path's timer runs, which appends exactly one and leaves
\* no timer of the path pending.
C37_EditDebounce ==
  [][\A p \in Procs, f \in EditPaths :
       LET called == /\ ev'.op = "tool_call" /\ ev'.p = p
                     /\ ev'.tool \in {"edit", "write"} /\ ev'.path = f
                     /\ ~ev'.block /\ state[p].registered
           fires == /\ ev'.op = "timer" /\ ev'.p = p
                    /\ ev'.timer = "edit" /\ ev'.path = f
           gained == Len(EditEvents(feed', f)) - Len(EditEvents(feed, f))
       IN /\ Cardinality(EditPendingAfter(p, f)) <= 1
          /\ called =>
               /\ EditPendingAfter(p, f) = {now + EDIT_DEBOUNCE_MS}
               /\ \A g \in EditPaths \ {f} :
                    EditPendingAfter(p, g) = EditPending(p, g)
          /\ fires =>
               /\ ev'.due <= now
               /\ gained = 1
               /\ EditPendingAfter(p, f) = {}
               /\ \A g \in EditPaths \ {f} :
                    EditPendingAfter(p, g) = EditPending(p, g)
          /\ (EditEvents(feed', f) # EditEvents(feed, f)) =>
               /\ \E q \in Procs :
                    /\ ev'.op = "timer" /\ ev'.timer = "edit"
                    /\ ev'.p = q /\ ev'.path = f
               /\ gained = 1]_vars

\* The timer of a path runs after two calls on the path less than
\* EDIT_DEBOUNCE_MS apart: the feed holds one "edit" event of the path.
C37_Witness ==
  /\ ev.op = "timer"
  /\ ev.timer = "edit"
  /\ ev.due = now
  /\ now = EDIT_DEBOUNCE_MS + EditTickMs
  /\ tracking[ev.p].recentEdits = 2
  /\ Len(EditEvents(feed, ev.path)) = 1

\* C38: session.filesModified holds at most MAX_FILES_MODIFIED paths and
\* none twice; the result of an edit or a write puts its path last and
\* keeps the order of the others, dropping the oldest one when the path is
\* new and the list is full; no other step changes the list.
C38_ModifiedFiles ==
  [][\A p \in Procs :
       LET files == state[p].filesModified
           after == state'[p].filesModified
           recorded == /\ ev'.op = "tool_result" /\ ev'.p = p
                       /\ ev'.tool \in {"edit", "write"}
       IN /\ Len(after) <= MAX_FILES_MODIFIED
          /\ \A i, j \in 1..Len(after) : after[i] = after[j] => i = j
          /\ IF recorded
             THEN LET others == SelectSeq(files, LAMBDA f : f # ev'.path)
                      full == /\ Len(files) = MAX_FILES_MODIFIED
                              /\ others = files
                  IN /\ after # <<>>
                     /\ after[Len(after)] = ev'.path
                     /\ SubSeq(after, 1, Len(after) - 1) =
                          (IF full THEN Tail(others) ELSE others)
             ELSE after = files]_vars

\* A 21st path was recorded after the first one had been touched again:
\* the list is full and its oldest entry, the second path, is gone.
C38_Witness ==
  /\ ev.op = "tool_result"
  /\ ev.path = FilePath(MAX_FILES_MODIFIED + 1)
  /\ Len(state[ev.p].filesModified) = MAX_FILES_MODIFIED
  /\ \E i \in 1..MAX_FILES_MODIFIED :
       state[ev.p].filesModified[i] = FilePath(1)
  /\ \A i \in 1..MAX_FILES_MODIFIED :
       state[ev.p].filesModified[i] # FilePath(2)

\* C39: the registry file validateRecipient unlinks is, at the moment of
\* the unlink, the record of a dead process.
C39_CleanupSparesLive ==
  [][ev'.op = "unlink" =>
       (ev'.removed = NoPid \/ ~isProcessAlive(ev'.removed))]_vars

\* C40: an open inbox watch and a pending retry timer never exist together;
\* the consecutive-failure counter stays within 0..5; a retry timer is
\* pending only while the counter is in 1..4; an unregistered agent has no
\* watch, no retry timer and no debounce timer.
C40_WatchState ==
  \A p \in Procs :
    /\ ~(state[p].watcher # NoWatch /\ state[p].watcherRetryTimer # NoTimer)
    /\ state[p].watcherRetries \in 0..MAX_WATCHER_RETRIES
    /\ state[p].watcherRetryTimer # NoTimer =>
         state[p].watcherRetries \in 1..(MAX_WATCHER_RETRIES - 1)
    /\ ~state[p].registered =>
         /\ state[p].watcher = NoWatch
         /\ state[p].watcherRetryTimer = NoTimer
         /\ state[p].watcherDebounceTimer = NoTimer
         /\ PendingTimeouts(World, p, "watcherDebounceTimer", NoKey) = {}

\* A session shut down while its retry timer was pending: the agent is
\* unregistered and its failure count is that of the cancelled retry.
C40_Witness ==
  /\ ev.op = "shutdown"
  /\ ev.retry
  /\ ~state[ev.p].registered
  /\ state[ev.p].watcherRetries \in 1..(MAX_WATCHER_RETRIES - 1)
  /\ state[ev.p].watcherRetryTimer = NoTimer

====
